---- MODULE Spec2Model ----
(***************************************************************************)
(* Narrative pattern matching, pattern library and hierarchical element    *)
(* store of the AI Writers Workshop (mcp_server/components).               *)
(*                                                                         *)
(* Text that the program inspects (names, stage names, scene fields, ids)  *)
(* is a sequence of one-character strings, so that lower(), split(),       *)
(* replace(), substring search and concatenation are computed as Python    *)
(* computes them.  Text that is only stored is an ordinary string.         *)
(* A Python dict is a function whose domain is its key set.  None and the  *)
(* empty string are both falsy wherever the code tests them, and both are  *)
(* written <<>> for the optional string arguments.                         *)
(***************************************************************************)
EXTENDS Integers, Sequences, FiniteSets, TLC

(***************************************************************************)
(* Python string and dict primitives                                       *)
(***************************************************************************)
LowerTable == "A" :> "a" @@ "B" :> "b" @@ "C" :> "c" @@ "D" :> "d" @@ "E" :> "e" @@ "F" :> "f" @@ "G" :> "g" @@ "H" :> "h" @@ "I" :> "i" @@ "J" :> "j" @@ "K" :> "k" @@ "L" :> "l" @@ "M" :> "m" @@ "N" :> "n" @@ "O" :> "o" @@ "P" :> "p" @@ "Q" :> "q" @@ "R" :> "r" @@ "S" :> "s" @@ "T" :> "t" @@ "U" :> "u" @@ "V" :> "v" @@ "W" :> "w" @@ "X" :> "x" @@ "Y" :> "y" @@ "Z" :> "z"

\* str.lower()
Upper == DOMAIN LowerTable

lower(s) == SubSeq([i \in 1..Len(s) |-> IF s[i] \in Upper THEN LowerTable[s[i]] ELSE s[i]], 1, Len(s))

\* `sub in text`
contains(text, sub) == \E i \in 0..(Len(text) - Len(sub)) : \A j \in 1..Len(sub) : text[i + j] = sub[j]

\* text.startswith(prefix)
startswith(text, prefix) == Len(prefix) <= Len(text) /\ \A j \in 1..Len(prefix) : text[j] = prefix[j]

\* str.replace(old, new) for a one-character old
replace(s, old, new) == SubSeq([i \in 1..Len(s) |-> IF s[i] = old THEN new ELSE s[i]], 1, Len(s))

\* str.replace(old, "") for a one-character old
remove(s, old) == SelectSeq(s, LAMBDA c : c # old)

\* sep.join(parts)
RECURSIVE join(_, _)
join(sep, parts) == IF parts = <<>> THEN <<>> ELSE IF Len(parts) = 1 THEN parts[1] ELSE parts[1] \o sep \o join(sep, Tail(parts))

\* str.split(): the maximal runs of non-blank characters, in order
RECURSIVE split_from(_, _, _)
split_from(s, i, word) == IF i > Len(s) THEN (IF word = <<>> THEN <<>> ELSE <<word>>) ELSE IF s[i] = " " THEN (IF word = <<>> THEN <<>> ELSE <<word>>) \o split_from(s, i + 1, <<>>) ELSE split_from(s, i + 1, Append(word, s[i]))

split(s) == split_from(s, 1, <<>>)

RECURSIVE concat(_)
concat(lists) == IF lists = <<>> THEN <<>> ELSE Head(lists) \o concat(Tail(lists))

\* dict.get(key, default)
get(d, key, default) == IF key \in DOMAIN d THEN d[key] ELSE default

\* {**d, key: value}
put(d, key, value) == [k \in DOMAIN d \cup {key} |-> IF k = key THEN value ELSE d[k]]

\* the empty dict
EmptyDict == [k \in {} |-> 0]

None == "None"

Max(a, b) == IF a >= b THEN a ELSE b

Min(a, b) == IF a <= b THEN a ELSE b

(***************************************************************************)
(* Default patterns (PatternManager._load_default_patterns)                *)
(***************************************************************************)
heroes_journey == <<"h","e","r","o","e","s","_","j","o","u","r","n","e","y">>

transformation == <<"t","r","a","n","s","f","o","r","m","a","t","i","o","n">>

voyage_and_return == <<"v","o","y","a","g","e","_","a","n","d","_","r","e","t","u","r","n">>

HeroesJourneyStages == <<
    <<"O","r","d","i","n","a","r","y"," ","W","o","r","l","d">>,
    <<"C","a","l","l"," ","t","o"," ","A","d","v","e","n","t","u","r","e">>,
    <<"R","e","f","u","s","a","l"," ","o","f"," ","t","h","e"," ","C","a","l","l">>,
    <<"M","e","e","t","i","n","g"," ","t","h","e"," ","M","e","n","t","o","r">>,
    <<"C","r","o","s","s","i","n","g"," ","t","h","e"," ","T","h","r","e","s","h","o","l","d">>,
    <<"T","e","s","t","s",","," ","A","l","l","i","e","s",","," ","E","n","e","m","i","e","s">>,
    <<"A","p","p","r","o","a","c","h"," ","t","o"," ","t","h","e"," ","I","n","m","o","s","t"," ","C","a","v","e">>,
    <<"O","r","d","e","a","l">>,
    <<"R","e","w","a","r","d">>,
    <<"T","h","e"," ","R","o","a","d"," ","B","a","c","k">>,
    <<"R","e","s","u","r","r","e","c","t","i","o","n">>,
    <<"R","e","t","u","r","n"," ","w","i","t","h"," ","t","h","e"," ","E","l","i","x","i","r">> >>

TransformationStages == <<
    <<"S","t","a","t","u","s"," ","Q","u","o">>,
    <<"D","i","s","r","u","p","t","i","o","n">>,
    <<"R","e","s","i","s","t","a","n","c","e">>,
    <<"S","t","r","u","g","g","l","e">>,
    <<"D","i","s","c","o","v","e","r","y">>,
    <<"I","n","t","e","g","r","a","t","i","o","n">>,
    <<"N","e","w"," ","N","o","r","m","a","l">> >>

VoyageAndReturnStages == <<
    <<"T","h","e"," ","O","r","d","i","n","a","r","y"," ","W","o","r","l","d">>,
    <<"T","h","e"," ","J","o","u","r","n","e","y"," ","B","e","g","i","n","s">>,
    <<"T","h","e"," ","S","t","r","a","n","g","e"," ","N","e","w"," ","W","o","r","l","d">>,
    <<"T","h","e"," ","C","h","a","l","l","e","n","g","e">>,
    <<"T","h","e"," ","R","e","t","u","r","n">> >>

default_patterns ==
    (heroes_journey :> [name |-> <<"H","e","r","o","'","s"," ","J","o","u","r","n","e","y">>,
                        description |-> "The classic monomyth structure identified by Joseph Campbell",
                        stages |-> HeroesJourneyStages,
                        psychological_functions |-> <<"Self-discovery", "Integration of shadow aspects", "Individuation">>,
                        examples |-> <<"Star Wars: A New Hope", "The Lord of the Rings", "The Matrix">>])
 @@ (transformation :> [name |-> <<"T","r","a","n","s","f","o","r","m","a","t","i","o","n">>,
                        description |-> "A pattern focused on character or societal change and growth",
                        stages |-> TransformationStages,
                        psychological_functions |-> <<"Personal growth", "Acceptance of change", "Evolution of identity">>,
                        examples |-> <<"A Christmas Carol", "Jane Eyre", "Groundhog Day">>])
 @@ (voyage_and_return :> [name |-> <<"V","o","y","a","g","e"," ","a","n","d"," ","R","e","t","u","r","n">>,
                        description |-> "A journey to an unfamiliar place, followed by a return with new perspective",
                        stages |-> VoyageAndReturnStages,
                        psychological_functions |-> <<"Expanding perspective", "Appreciating home/origins", "Adapting to new environments">>,
                        examples |-> <<"The Wizard of Oz", "Alice in Wonderland", "The Hobbit">>])

(***************************************************************************)
(* Narrative matcher (PatternManager.analyze_narrative).                   *)
(* The repository holds two versions of the method: the one in             *)
(* components/pattern_manager.py ("current") and the one that              *)
(* fix_pattern_manager.py writes over that file ("fixed").                 *)
(***************************************************************************)
\* round(n / 4) as Python 3 rounds: to the nearest integer, ties to even
round_quarters(n) == LET q == n \div 4  r == n % 4 IN IF r < 2 THEN q ELSE IF r > 2 THEN q + 1 ELSE IF q % 2 = 0 THEN q ELSE q + 1

\* the variant with int() in place of round(): the product is truncated
required_stage_count_truncated(stages, adherence_level) == Max(1, (Len(stages) * adherence_level) \div 4)

\* adherence levels are given in quarters: 0 is 0.0, 2 is 0.5, 4 is 1.0
required_stage_count(stages, adherence_level) == Max(1, round_quarters(Len(stages) * adherence_level))

\* current version: title and description are the only fields read
title_current(scene) == get(scene, "title", <<>>)

\* fixed version: title or scene_title
title_fixed(scene) == get(scene, "title", get(scene, "scene_title", <<>>))

OtherFields == <<"conflict", "goal", "outcome", "notes">>

present_fields(scene) == SelectSeq(OtherFields, LAMBDA f : f \in DOMAIN scene)

scene_text_fields(scene) ==
    <<title_fixed(scene), get(scene, "description", <<>>), get(scene, "pattern_stage", <<>>)>>
    \o SubSeq([i \in 1..Len(present_fields(scene)) |-> scene[present_fields(scene)[i]]], 1, Len(present_fields(scene)))

scene_text(scene) == lower(join(<<" ">>, scene_text_fields(scene)))

\* what the two loops read from one scene, computed once per scene
scene_view(scene) ==
    [title_current |-> title_current(scene),
     title_lower |-> lower(title_current(scene)),
     description_lower |-> lower(get(scene, "description", <<>>)),
     title_fixed |-> title_fixed(scene),
     pattern_stage_lower |-> lower(get(scene, "pattern_stage", <<>>)),
     scene_text |-> scene_text(scene),
     content_words |-> split(scene_text(scene)),
     truthy |-> DOMAIN scene # {}]

scene_views(scenes) == SubSeq([i \in 1..Len(scenes) |-> scene_view(scenes[i])], 1, Len(scenes))

\* `stage.lower() in title.lower() or stage.lower() in description.lower()`
exact_current(stage_lower, view) ==
    \/ contains(view.title_lower, stage_lower)
    \/ contains(view.description_lower, stage_lower)

\* `stage.lower() in scene_text`, then `pattern_stage.lower() == stage.lower()`
exact_fixed(stage_lower, view) ==
    \/ contains(view.scene_text, stage_lower)
    \/ view.pattern_stage_lower = stage_lower

exact(fixed_version, stage_lower, view) ==
    IF fixed_version THEN exact_fixed(stage_lower, view) ELSE exact_current(stage_lower, view)

\* index of the scene at which the exact loop breaks, 0 if it runs to the end
exact_scene(fixed_version, stage_lower, views) ==
    IF \E i \in 1..Len(views) : exact(fixed_version, stage_lower, views[i])
    THEN CHOOSE i \in 1..Len(views) :
            /\ exact(fixed_version, stage_lower, views[i])
            /\ \A j \in 1..(i - 1) : ~exact(fixed_version, stage_lower, views[j])
    ELSE 0

\* current version: one point per significant stage word found in title or description
score_current(stage_lower, view) ==
    LET words == split(stage_lower)
    IN Cardinality({i \in 1..Len(words) :
            /\ Len(words[i]) > 3
            /\ \/ contains(view.title_lower, words[i])
               \/ contains(view.description_lower, words[i])})

theme_mappings == <<
    [theme |-> <<"b","e","g","i","n","n","i","n","g">>, related |-> << <<"s","t","a","r","t">>, <<"i","n","i","t","i","a","t","i","o","n">>, <<"g","e","n","e","s","i","s">>, <<"b","i","r","t","h">> >>],
    [theme |-> <<"j","o","u","r","n","e","y">>, related |-> << <<"p","a","t","h">>, <<"v","o","y","a","g","e">>, <<"t","r","a","v","e","l">>, <<"a","d","v","e","n","t","u","r","e">> >>],
    [theme |-> <<"t","r","a","n","s","f","o","r","m","a","t","i","o","n">>, related |-> << <<"c","h","a","n","g","e">>, <<"e","v","o","l","u","t","i","o","n">>, <<"m","e","t","a","m","o","r","p","h","o","s","i","s">> >>],
    [theme |-> <<"c","h","a","l","l","e","n","g","e">>, related |-> << <<"t","e","s","t">>, <<"t","r","i","a","l">>, <<"d","i","f","f","i","c","u","l","t","y">>, <<"o","b","s","t","a","c","l","e">> >>],
    [theme |-> <<"a","w","a","k","e","n","i","n","g">>, related |-> << <<"r","e","a","l","i","z","a","t","i","o","n">>, <<"d","i","s","c","o","v","e","r","y">>, <<"e","n","l","i","g","h","t","e","n","m","e","n","t">> >>],
    [theme |-> <<"i","n","t","e","g","r","a","t","i","o","n">>, related |-> << <<"u","n","i","f","i","c","a","t","i","o","n">>, <<"h","a","r","m","o","n","y">>, <<"b","a","l","a","n","c","e">> >>],
    [theme |-> <<"t","r","a","n","s","c","e","n","d","e","n","c","e">>, related |-> << <<"a","s","c","e","n","s","i","o","n">>, <<"e","l","e","v","a","t","i","o","n">>, <<"e","n","l","i","g","h","t","e","n","m","e","n","t">> >> ] >>

\* the related words of every theme that occurs in the stage name, one entry per (theme, word)
related_words(stage_lower) ==
    concat(SubSeq([t \in 1..Len(theme_mappings) |->
                IF contains(stage_lower, theme_mappings[t].theme) THEN theme_mappings[t].related ELSE <<>>],
           1, Len(theme_mappings)))

\* fixed version: 2 per stage word present, 1 per stage word stem-matched, 1 per related theme word present
score_fixed(stage_lower, view) ==
    LET words == split(stage_lower)
        related == related_words(stage_lower)
        full == {i \in 1..Len(words) : Len(words[i]) > 3 /\ contains(view.scene_text, words[i])}
        stem == {i \in 1..Len(words) :
                    /\ Len(words[i]) > 3
                    /\ ~contains(view.scene_text, words[i])
                    /\ \E j \in 1..Len(view.content_words) :
                          /\ startswith(view.content_words[j], SubSeq(words[i], 1, 4))
                          /\ Len(view.content_words[j]) >= Len(words[i])}
        themed == {k \in 1..Len(related) : contains(view.scene_text, related[k])}
    IN 2 * Cardinality(full) + Cardinality(stem) + Cardinality(themed)

score(fixed_version, stage_lower, view) ==
    IF fixed_version THEN score_fixed(stage_lower, view) ELSE score_current(stage_lower, view)

\* `if score > best_score` over the scenes in order: the first scene with the highest score, 0 if no score is above 0
best_match(scores) ==
    IF \E i \in 1..Len(scores) : scores[i] > 0
    THEN CHOOSE i \in 1..Len(scores) :
            /\ \A j \in 1..Len(scores) : scores[j] <= scores[i]
            /\ \A j \in 1..(i - 1) : scores[j] < scores[i]
    ELSE 0

\* the current version runs the second pass only under `adherence_level < 1.0`
fallback_runs(fixed_version, adherence_level) == fixed_version \/ adherence_level < 4

\* one iteration of `for stage in stages`: the entry appended to matched_stages, or a
\* "missing" marker when the stage is appended to missing_stages
match_stage(fixed_version, stage, views, adherence_level) ==
    LET stage_lower == lower(stage)
        e == exact_scene(fixed_version, stage_lower, views)
        scores == SubSeq([i \in 1..Len(views) |-> score(fixed_version, stage_lower, views[i])], 1, Len(views))
        b == best_match(scores)
    IN IF e # 0
       THEN IF fixed_version
            THEN [stage |-> stage, scene |-> views[e].title_fixed, match_quality |-> "exact", score |-> None]
            ELSE [stage |-> stage, scene |-> views[e].title_current, match_quality |-> "exact"]
       ELSE IF fallback_runs(fixed_version, adherence_level) /\ b # 0
            THEN IF fixed_version
                 THEN IF views[b].truthy
                      THEN [stage |-> stage, scene |-> views[b].title_fixed, match_quality |-> "semantic",
                            score |-> scores[b]]
                      ELSE [stage |-> stage, match_quality |-> "missing"]
                 ELSE [stage |-> stage, scene |-> views[b].title_current, match_quality |-> "partial",
                       match_score |-> scores[b]]
            ELSE [stage |-> stage, match_quality |-> "missing"]

\* the variant in which a fallback match does not set `found`: the stage is appended to
\* matched_stages and to missing_stages
RECURSIVE match_loop_both(_, _, _, _, _)
match_loop_both(fixed_version, stages, views, adherence_level, acc) ==
    IF stages = <<>> THEN acc
    ELSE LET m == match_stage(fixed_version, Head(stages), views, adherence_level)
         IN match_loop_both(fixed_version, Tail(stages), views, adherence_level,
                IF m.match_quality = "missing"
                THEN [acc EXCEPT !.missing_stages = Append(@, Head(stages))]
                ELSE IF m.match_quality = "exact"
                THEN [acc EXCEPT !.matched_stages = Append(@, m)]
                ELSE [acc EXCEPT !.matched_stages = Append(@, m), !.missing_stages = Append(@, Head(stages))])

\* the whole stage loop: matched_stages and missing_stages in append order
RECURSIVE match_loop(_, _, _, _, _)
match_loop(fixed_version, stages, views, adherence_level, acc) ==
    IF stages = <<>> THEN acc
    ELSE LET m == match_stage(fixed_version, Head(stages), views, adherence_level)
         IN match_loop(fixed_version, Tail(stages), views, adherence_level,
                IF m.match_quality = "missing"
                THEN [acc EXCEPT !.missing_stages = Append(@, Head(stages))]
                ELSE [acc EXCEPT !.matched_stages = Append(@, m)])

\* required_stages and match_score (a fraction) beside the two lists
matcher_result(lists, required) ==
    [matched_stages |-> lists.matched_stages,
     missing_stages |-> lists.missing_stages,
     required_stages |-> required,
     match_score |-> [num |-> Len(lists.matched_stages), den |-> required]]

\* the matching part of one call
run_matcher(fixed_version, stages, scenes, adherence_level) ==
    matcher_result(match_loop(fixed_version, stages, scene_views(scenes), adherence_level,
                              [matched_stages |-> <<>>, missing_stages |-> <<>>]),
                   required_stage_count(stages, adherence_level))

\* the counts behind match_quality_text, e.g. "3 exact, 2 semantic"
match_quality_counts(matched_stages) ==
    [q \in {matched_stages[i].match_quality : i \in 1..Len(matched_stages)} |->
        Cardinality({i \in 1..Len(matched_stages) : matched_stages[i].match_quality = q})]

\* the numbers the analysis sentence reports; int(match_score * 100) truncates
analysis_text(fixed_version, result, stages, adherence_level) ==
    [percent |-> (result.match_score.num * 100) \div result.match_score.den,
     matched |-> Len(result.matched_stages),
     of |-> IF adherence_level < 4 THEN result.required_stages ELSE Len(stages),
     detail |-> IF fixed_version THEN match_quality_counts(result.matched_stages)
                ELSE IF adherence_level < 4 THEN [adherence_percent |-> (adherence_level * 100) \div 4]
                ELSE EmptyDict]

\* first_scene_title: the current version indexes scenes[0]["title"] and raises KeyError
\* when the key is absent; the fixed version falls back to scene_title, then "unnamed"
unnamed == <<"u","n","n","a","m","e","d">>

\* the variant without `if scenes`: scenes[0] raises on the empty list as well
first_scene_raises_unguarded(fixed_version, scenes) ==
    ~fixed_version /\ (scenes = <<>> \/ "title" \notin DOMAIN scenes[1])

first_scene_raises(fixed_version, scenes) == ~fixed_version /\ scenes # <<>> /\ "title" \notin DOMAIN scenes[1]

first_scene_title(fixed_version, scenes) ==
    IF scenes = <<>> THEN unnamed
    ELSE IF fixed_version THEN get(scenes[1], "title", get(scenes[1], "scene_title", unnamed))
    ELSE scenes[1]["title"]

\* the id without the title of the first scene
analysis_id_untitled(fixed_version, scenes, pattern_name) ==
    <<"a","n","a","l","y","s","i","s","-","u","n","n","a","m","e","d","-">> \o pattern_name

\* f"analysis-{sanitized_title}-{pattern_name}"
analysis_id(fixed_version, scenes, pattern_name) ==
    <<"a","n","a","l","y","s","i","s","-">> \o replace(lower(first_scene_title(fixed_version, scenes)), " ", "_") \o <<"-">> \o pattern_name

(***************************************************************************)
(* Files                                                                   *)
(***************************************************************************)
\* json.dump: the members of the object; json.load: the dict they spell
json_dump(d) == {<<k, d[k]>> : k \in DOMAIN d}

json_load(text) == [k \in {m[1] : m \in text} |-> (CHOOSE m \in text : m[1] = k)[2]]

dot_json == <<".","j","s","o","n">>

characters == <<"c","h","a","r","a","c","t","e","r","s">>

scenes_type == <<"s","c","e","n","e","s">>

outlines == <<"o","u","t","l","i","n","e","s">>

analyses == <<"a","n","a","l","y","s","e","s">>

symbols == <<"s","y","m","b","o","l","s">>

drafts == <<"d","r","a","f","t","s">>

\* ProjectManager.legacy_dirs
\* the flat directories with one for drafts added
legacy_dirs_and_drafts == {characters, scenes_type, outlines, analyses, symbols, drafts}

legacy_dirs == {characters, scenes_type, outlines, analyses, symbols}

\* the sub-directories create_project makes
project_subdirs == <<characters, scenes_type, outlines, analyses, symbols, drafts>>

\* str(n) for n >= 0
Digits == <<"0", "1", "2", "3", "4", "5", "6", "7", "8", "9">>

RECURSIVE str(_)
str(n) == IF n < 10 THEN <<Digits[n + 1]>> ELSE str(n \div 10) \o <<Digits[(n % 10) + 1]>>

VARIABLES
    pattern_manager_py,  \* content of components/pattern_manager.py: "current" or "fixed"
    library,             \* library/patterns/{id}.json: pattern id -> file content
    patterns,            \* PatternManager.patterns: pattern id -> pattern dict
    projects,            \* projects/{id}: project id -> [metadata, files: type -> id -> content]
    legacy,              \* the flat directories: type -> id -> file content
    now,                 \* the clock datetime.now() reads
    call,                \* the last call: its operation and arguments
    ret,                 \* what the last call returned, or the exception it raised
    analysis,            \* analysis_result built by the last analyze_narrative that resolved its pattern
    previous,            \* `analysis` of the analyze_narrative before that one
    saved,               \* history: project id -> type -> ids saved since the project's index was last reset
    input,               \* the scenes and pattern name a matcher-only run is about
    running              \* the save_element execution in progress: its position and local variables

vars == <<pattern_manager_py, library, patterns, projects, legacy, now, call, ret, analysis, previous, saved, input, running>>

store == <<library, patterns, projects, legacy>>

\* no save_element execution is in progress
Idle == [pc |-> 0]

fixed_version == pattern_manager_py = "fixed"

(***************************************************************************)
(* ProjectManager                                                          *)
(***************************************************************************)
\* _sanitize_name
_sanitize_name(name) == remove(remove(replace(replace(lower(name), " ", "_"), "-", "_"), "'"), "\"")

\* f"projects/{project_id}/{element_type}/{element_id}.json"
element_path(project_id, element_type, element_id) ==
    <<"p","r","o","j","e","c","t","s","/">> \o project_id \o <<"/">> \o element_type \o <<"/">> \o element_id \o dot_json

metadata_path(project_id) == <<"p","r","o","j","e","c","t","s","/">> \o project_id \o <<"/","m","e","t","a","d","a","t","a",".","j","s","o","n">>

all_projects(projs) ==
    {[id |-> p,
      name |-> get(json_load(projs[p].metadata), "name", p),
      description |-> get(json_load(projs[p].metadata), "description", ""),
      type |-> get(json_load(projs[p].metadata), "type", "unknown"),
      status |-> get(json_load(projs[p].metadata), "status", "unknown"),
      modified_at |-> get(json_load(projs[p].metadata), "modified_at", "")] : p \in DOMAIN projs}

\* get_project: the metadata with the paths, or the not-found result
get_project_nameless(projs, project_id) ==
    IF project_id \notin DOMAIN projs
    THEN [error |-> [message |-> "Project not found", id |-> project_id], available_projects |-> {}]
    ELSE put(put(json_load(projs[project_id].metadata), "output_path", metadata_path(project_id)),
             "project_dir", <<"p","r","o","j","e","c","t","s","/">> \o project_id)

get_project(projs, project_id) ==
    IF project_id \notin DOMAIN projs
    THEN [error |-> [message |-> "Project not found", id |-> project_id],
          available_projects |-> all_projects(projs)]
    ELSE put(put(json_load(projs[project_id].metadata), "output_path", metadata_path(project_id)),
             "project_dir", <<"p","r","o","j","e","c","t","s","/">> \o project_id)

\* .get("name", "") or .get("title", "")
name_or_title(data) == IF get(data, "name", <<>>) # <<>> THEN data["name"] ELSE get(data, "title", <<>>)

\* the variant that appends the reference whether or not its id is listed
append_reference(refs, reference) == Append(refs, reference)

\* the reference list after add_project_element: the first entry with the reference's id is
\* replaced, and the reference is appended when there is none
update_reference(refs, reference) ==
    LET existing == IF \E i \in 1..Len(refs) : refs[i].id = reference.id
                    THEN CHOOSE i \in 1..Len(refs) : refs[i].id = reference.id /\ \A j \in 1..(i - 1) : refs[j].id # reference.id
                    ELSE 0
    IN IF existing # 0 THEN [refs EXCEPT ![existing] = reference] ELSE Append(refs, reference)

\* the variant that rebuilds `elements` with the saved type alone
add_project_element_one_type(metadata_text, project_id, element_type, element_id, element_data, time) ==
    LET metadata == json_load(metadata_text)
        reference == [id |-> element_id,
                      name |-> IF name_or_title(element_data) # <<>> THEN name_or_title(element_data) ELSE element_id,
                      path |-> element_path(project_id, element_type, element_id),
                      created_at |-> get(element_data, "created_at", time)]
        refs == get(get(metadata, "elements", EmptyDict), element_type, <<>>)
    IN json_dump(put(put(metadata, "elements", put(EmptyDict, element_type, update_reference(refs, reference))),
                     "modified_at", time))

\* add_project_element: the metadata content after the reference is inserted or updated
add_project_element(metadata_text, project_id, element_type, element_id, element_data, time) ==
    LET metadata == json_load(metadata_text)
        reference == [id |-> element_id,
                      name |-> IF name_or_title(element_data) # <<>> THEN name_or_title(element_data) ELSE element_id,
                      path |-> element_path(project_id, element_type, element_id),
                      created_at |-> get(element_data, "created_at", time)]
        elements == get(metadata, "elements", EmptyDict)
        refs == get(elements, element_type, <<>>)
    IN json_dump(put(put(metadata, "elements", put(elements, element_type, update_reference(refs, reference))),
                     "modified_at", time))

\* the element id save_element uses
save_element_id(element_type, element_data, element_id, time) ==
    IF element_id # <<>> THEN element_id
    ELSE IF name_or_title(element_data) # <<>> THEN _sanitize_name(name_or_title(element_data))
    ELSE element_type \o <<"_">> \o str(time)

\* the variant that stamps created_at on every save
stamp_created_at_always(element_data, time) == put(element_data, "created_at", time)

\* `if "created_at" not in element_data: element_data["created_at"] = ...`
stamp_created_at(element_data, time) ==
    IF "created_at" \in DOMAIN element_data THEN element_data ELSE put(element_data, "created_at", time)

\* save_element on an existing project: the stores after it and what it returns
save_element(projs, leg, project_id, element_type, element_data, element_id, time) ==
    LET id == save_element_id(element_type, element_data, element_id, time)
        data == stamp_created_at(element_data, time)
        proj == projs[project_id]
        dir == get(proj.files, element_type, EmptyDict)
        files2 == put(proj.files, element_type, put(dir, id, json_dump(data)))
        metadata2 == add_project_element(proj.metadata, project_id, element_type, id, data, time)
    IN [projects |-> put(projs, project_id, [metadata |-> metadata2, files |-> files2]),
        legacy |-> IF element_type \in legacy_dirs
                   THEN put(leg, element_type, put(leg[element_type], id, json_dump(data)))
                   ELSE leg,
        id |-> id,
        ret |-> put(put(data, "id", id), "output_path", element_path(project_id, element_type, id))]

\* list_project_elements with an element type: the entries of the files in the type's directory
list_project_elements(projs, project_id, element_type) ==
    IF project_id \notin DOMAIN projs THEN get_project(projs, project_id)
    ELSE IF element_type \notin DOMAIN projs[project_id].files
    THEN [error |-> [message |-> "Element type not found", id |-> element_type],
          available_types |-> DOMAIN projs[project_id].files]
    ELSE LET dir == projs[project_id].files[element_type]
         IN [listing |-> {[id |-> e,
                           name |-> IF name_or_title(json_load(dir[e])) # <<>> THEN name_or_title(json_load(dir[e])) ELSE e,
                           path |-> element_path(project_id, element_type, e)] : e \in DOMAIN dir}]

\* get_element: the element file's content with id and output_path, or a not-found result
get_element_result(projs, project_id, element_type, element_id) ==
    IF project_id \notin DOMAIN projs THEN get_project(projs, project_id)
    ELSE IF element_id \notin DOMAIN get(projs[project_id].files, element_type, EmptyDict)
    THEN [error |-> [message |-> "Element not found", id |-> element_id],
          available_elements |-> list_project_elements(projs, project_id, element_type)]
    ELSE put(put(json_load(projs[project_id].files[element_type][element_id]), "id", element_id),
             "output_path", element_path(project_id, element_type, element_id))

\* the metadata create_project writes
new_metadata(name, description, project_type, time) ==
    [name |-> name, description |-> description, type |-> project_type,
     created_at |-> time, modified_at |-> time, primary_pattern |-> None,
     themes |-> <<>>, main_characters |-> <<>>, secondary_characters |-> <<>>,
     word_count |-> 0, status |-> "in_progress", notes |-> "",
     elements |-> [t \in {project_subdirs[i] : i \in 1..Len(project_subdirs)} |-> <<>>]]

(***************************************************************************)
(* PatternManager                                                          *)
(***************************************************************************)
\* the variant that falls back to the first default pattern when the name resolves to nothing
pattern_details_default(lib, table, pattern_name) ==
    IF lower(pattern_name) \in DOMAIN lib THEN [pattern |-> json_load(lib[lower(pattern_name)])]
    ELSE IF lower(pattern_name) \in DOMAIN table THEN [pattern |-> table[lower(pattern_name)]]
    ELSE [pattern |-> default_patterns[heroes_journey]]

\* get_pattern_details: the library file first, then the in-memory table
\* the lookup without .lower()
pattern_details_exact_case(lib, table, pattern_name) ==
    IF pattern_name \in DOMAIN lib THEN [pattern |-> json_load(lib[pattern_name])]
    ELSE IF pattern_name \in DOMAIN table THEN [pattern |-> table[pattern_name]]
    ELSE [error |-> [message |-> "Pattern not found", id |-> pattern_name],
          available_patterns |-> DOMAIN table]

pattern_details(lib, table, pattern_name) ==
    IF lower(pattern_name) \in DOMAIN lib THEN [pattern |-> json_load(lib[lower(pattern_name)])]
    ELSE IF lower(pattern_name) \in DOMAIN table THEN [pattern |-> table[lower(pattern_name)]]
    ELSE [error |-> [message |-> "Pattern not found", id |-> pattern_name],
          available_patterns |-> DOMAIN table]

\* name.lower().replace(" ", "_").replace("-", "_")
pattern_id_of(name) == replace(replace(lower(name), " ", "_"), "-", "_")

pattern_path(pattern_id) == <<"l","i","b","r","a","r","y","/","p","a","t","t","e","r","n","s","/">> \o pattern_id \o dot_json

\* the pattern create_custom_pattern stores
custom_pattern_data(base, name, description, stages, psychological_functions, examples, based_on, time) ==
    LET fresh == [name |-> name, description |-> description, stages |-> stages,
                  psychological_functions |-> psychological_functions, examples |-> examples]
        copy1 == put(put(put(base, "name", name), "description", description), "stages", stages)
        copy2 == IF psychological_functions # <<>> THEN put(copy1, "psychological_functions", psychological_functions) ELSE copy1
        copy3 == IF examples # <<>> THEN put(copy2, "examples", examples) ELSE copy2
    IN put(IF based_on # <<>> THEN copy3 ELSE fresh, "created_at", time)

\* round(n / 10) as Python 3 rounds: ties to even
round_tenths(n) == LET q == n \div 10  r == n % 10 IN IF r < 5 THEN q ELSE IF r > 5 THEN q + 1 ELSE IF q % 2 = 0 THEN q ELSE q + 1

\* descending, but of equal weights the later one first
RECURSIVE sort_by_weight_later_first(_)
sort_by_weight_later_first(list) ==
    IF list = <<>> THEN <<>>
    ELSE LET first == CHOOSE i \in 1..Len(list) :
                        /\ \A j \in 1..Len(list) : list[j].weight <= list[i].weight
                        /\ \A j \in (i + 1)..Len(list) : list[j].weight < list[i].weight
         IN <<list[first]>> \o sort_by_weight_later_first(SubSeq(list, 1, first - 1) \o SubSeq(list, first + 1, Len(list)))

\* list.sort(key=weight, reverse=True): descending, equal weights keep their order
RECURSIVE sort_by_weight(_)
sort_by_weight(list) ==
    IF list = <<>> THEN <<>>
    ELSE LET first == CHOOSE i \in 1..Len(list) :
                        /\ \A j \in 1..Len(list) : list[j].weight <= list[i].weight
                        /\ \A j \in 1..(i - 1) : list[j].weight < list[i].weight
         IN <<list[first]>> \o sort_by_weight(SubSeq(list, 1, first - 1) \o SubSeq(list, first + 1, Len(list)))

\* list(dict.fromkeys(items)): first occurrences, in order
RECURSIVE dedupe(_)
dedupe(items) ==
    IF items = <<>> THEN <<>>
    ELSE LET rest == dedupe(SubSeq(items, 1, Len(items) - 1))
         IN IF \E i \in 1..Len(rest) : rest[i] = items[Len(items)] THEN rest ELSE Append(rest, items[Len(items)])

StageCap == 12

\* the number of stages asked of one source pattern; weights are given in tenths
num_stages(weight, target_stages) == Max(1, round_tenths(weight * target_stages))

\* `(num_stages - 1)` is the divisor of the index computation
take_raises(pattern_stages, n) == n < Len(pattern_stages) /\ n = 1

\* the first n stages instead of n evenly spaced ones
take_stages_from_the_start(pattern_stages, n) ==
    IF n >= Len(pattern_stages) THEN pattern_stages ELSE SubSeq(pattern_stages, 1, n)

\* the stages taken from one source pattern
take_stages(pattern_stages, n) ==
    IF n >= Len(pattern_stages) THEN pattern_stages
    ELSE [i \in 1..n |-> pattern_stages[(((i - 1) * (Len(pattern_stages) - 1)) \div (n - 1)) + 1]]

\* the stage list cut to the target from the front: the last stages are kept
hybrid_stages_tail(sorted) ==
    LET total_stages == Len(concat([i \in 1..Len(sorted) |-> sorted[i].pattern["stages"]]))
        target_stages == Min(StageCap, total_stages)
        all == concat([i \in 1..Len(sorted) |->
                        take_stages(sorted[i].pattern["stages"], num_stages(sorted[i].weight, target_stages))])
    IN SubSeq(all, Len(all) - Min(target_stages, Len(all)) + 1, Len(all))

\* the auto-generated stage list of a hybrid, for the sorted source list
hybrid_stages(sorted) ==
    LET total_stages == Len(concat([i \in 1..Len(sorted) |-> sorted[i].pattern["stages"]]))
        target_stages == Min(StageCap, total_stages)
        all == concat([i \in 1..Len(sorted) |->
                        take_stages(sorted[i].pattern["stages"], num_stages(sorted[i].weight, target_stages))])
    IN SubSeq(all, 1, Min(target_stages, Len(all)))

hybrid_raises(sorted) ==
    LET total_stages == Len(concat([i \in 1..Len(sorted) |-> sorted[i].pattern["stages"]]))
        target_stages == Min(StageCap, total_stages)
    IN \E i \in 1..Len(sorted) : take_raises(sorted[i].pattern["stages"], num_stages(sorted[i].weight, target_stages))

\* `custom_stages: Optional[List[str]] = None` is <<>> for None and <<list>> for a list.
\* `if custom_stages:` holds for a list that is not empty
has_custom_stages(custom_stages) == custom_stages # <<>> /\ custom_stages[1] # <<>>

\* the pattern create_hybrid_pattern stores
hybrid_pattern_data(sorted, name, description, custom_stages, time) ==
    [name |-> name, description |-> description, hybrid |-> TRUE,
     component_patterns |-> [n \in {sorted[i].name : i \in 1..Len(sorted)} |->
                                sorted[CHOOSE i \in 1..Len(sorted) : sorted[i].name = n].weight],
     stages |-> IF has_custom_stages(custom_stages) THEN custom_stages[1] ELSE hybrid_stages(sorted),
     psychological_functions |->
        dedupe(concat([i \in 1..Len(sorted) |-> get(sorted[i].pattern, "psychological_functions", <<>>)])),
     examples |->
        dedupe(concat([i \in 1..Len(sorted) |->
            SubSeq(get(sorted[i].pattern, "examples", <<>>), 1, Min(2, Len(get(sorted[i].pattern, "examples", <<>>))))])),
     created_at |-> time]

(***************************************************************************)
(* Bounds and the inputs the operations are called with                    *)
(***************************************************************************)
MaxClock == 3

MaxScenes == 2

\* 0.0, 0.25, 0.5, 0.75 and 1.0, in quarters
AdherenceLevels == 0..4

SceneA == ("title" :> <<"O","r","d","i","n","a","r","y"," ","W","o","r","l","d">>) @@ ("description" :> <<"a"," ","v","i","l","l","a","g","e">>)

SceneB == ("scene_title" :> <<"T","h","e"," ","M","e","e","t","i","n","g">>) @@ ("pattern_stage" :> <<"D","i","s","r","u","p","t","i","o","n">>) @@ ("conflict" :> <<"a"," ","t","e","s","t">>)

SceneC == ("title" :> <<"T","h","e"," ","R","o","a","d">>) @@ ("description" :> <<"f","r","o","m"," ","t","h","e"," ","o","r","d","i","n","a","r","y"," ","w","o","r","l","d">>)

SceneD == EmptyDict

Scenes == {SceneA, SceneB, SceneC, SceneD}

SceneLists == UNION {[1..n -> Scenes] : n \in 0..MaxScenes}

Transformation == <<"T","r","a","n","s","f","o","r","m","a","t","i","o","n">>

no_such_pattern == <<"n","o","_","s","u","c","h">>

MatcherPatternNames == {heroes_journey, Transformation, voyage_and_return}

ProjectP == <<"P">>

project_p == <<"p">>

project_q == <<"q">>

\* the scene lists and the adherence level (the default, 1.0) of the calls beside the library and store operations
StoreScenes == {<<>>, <<SceneA>>, <<SceneB>>}

StoreAdherenceLevels == {4}

my_arc == <<"m","y","_","a","r","c">>

PatternNames == {heroes_journey, Transformation, no_such_pattern, my_arc}

CustomNames == {<<"M","y"," ","A","r","c">>, Transformation}

CustomStageLists == {<<<<"O","r","d","i","n","a","r","y"," ","W","o","r","l","d">>, <<"O","r","d","e","a","l">>, <<"O","r","d","e","a","l">>>>, <<>>}

\* the patterns dict of a hybrid call in iteration order, weights in tenths
HybridSources == {
    <<[name |-> heroes_journey, weight |-> 7], [name |-> transformation, weight |-> 3]>>,
    <<[name |-> transformation, weight |-> 5], [name |-> voyage_and_return, weight |-> 5]>>,
    <<[name |-> transformation, weight |-> 7], [name |-> voyage_and_return, weight |-> 3]>>,
    <<[name |-> heroes_journey, weight |-> 7], [name |-> no_such_pattern, weight |-> 3]>>,
    <<[name |-> voyage_and_return, weight |-> 1], [name |-> heroes_journey, weight |-> 9]>>,
    <<>> }

HybridCalls ==
    [sources : HybridSources, custom_stages : {<<>>}]
    \cup {[sources |-> <<[name |-> transformation, weight |-> 5], [name |-> voyage_and_return, weight |-> 5]>>,
           custom_stages |-> << <<<<"O","n","l","y">>>> >>]}

AnalyzedNames == {heroes_journey, no_such_pattern, my_arc}

ProjectIds == {project_p, project_q}

ElementTypes == {characters, drafts}

ann == <<"a","n","n">>

zed == <<"z","e","d">>

ElementIds == {<<>>, ann}

PayloadNamed == [name |-> <<"A","n","n">>]

PayloadStamped == [title |-> <<"A","n","n"," ","B">>, created_at |-> 0]

PayloadAnon == [role |-> "hero"]

PayloadOwnId == [id |-> zed, name |-> <<"B","o","b">>]

Payloads == {PayloadNamed, PayloadStamped, PayloadAnon, PayloadOwnId}

Patches == {[status |-> "done"], [elements |-> EmptyDict], [bogus |-> 1]}

(***************************************************************************)
(* State                                                                   *)
(***************************************************************************)
NoCall == [op |-> "none"]

NoAnalysis == [valid |-> FALSE]

default_files == [id \in DOMAIN default_patterns |-> json_dump(default_patterns[id])]

\* the defaults written over whatever the library holds
save_default_patterns_overwriting(lib) ==
    [id \in DOMAIN lib \cup DOMAIN default_patterns |->
        IF id \in DOMAIN default_patterns THEN default_files[id] ELSE lib[id]]

\* "Save default patterns to library": each default whose file does not exist is written
save_default_patterns(lib) ==
    [id \in DOMAIN lib \cup DOMAIN default_patterns |->
        IF id \in DOMAIN lib THEN lib[id] ELSE default_files[id]]

\* the state after PatternManager(base_dir) and ProjectManager(base_dir) on an empty output directory
InitStore ==
    /\ pattern_manager_py = "current"
    /\ library = default_files
    /\ patterns = default_patterns
    /\ projects = EmptyDict
    /\ legacy = [t \in legacy_dirs |-> EmptyDict]
    /\ now = 1
    /\ call = NoCall
    /\ ret = EmptyDict
    /\ analysis = NoAnalysis
    /\ previous = NoAnalysis
    /\ saved = EmptyDict

Init ==
    /\ InitStore
    /\ input = [scenes |-> <<>>, pattern_name |-> heroes_journey]
    /\ running = Idle

\* the same state with the clock leaving room for two calls
InitLibrary ==
    /\ pattern_manager_py = "current"
    /\ library = default_files
    /\ patterns = default_patterns
    /\ projects = EmptyDict
    /\ legacy = [t \in legacy_dirs |-> EmptyDict]
    /\ now = MaxClock - 1
    /\ call = NoCall
    /\ ret = EmptyDict
    /\ analysis = NoAnalysis
    /\ previous = NoAnalysis
    /\ saved = EmptyDict
    /\ input = [scenes |-> <<>>, pattern_name |-> heroes_journey]
    /\ running = Idle

\* the matcher-only runs: the scenes and the pattern are drawn here
InitMatcher ==
    /\ pattern_manager_py = "current"
    /\ library = default_files
    /\ patterns = default_patterns
    /\ projects = EmptyDict
    /\ legacy = [t \in legacy_dirs |-> EmptyDict]
    /\ now = MaxClock - 1
    /\ call = NoCall
    /\ ret = EmptyDict
    /\ analysis = NoAnalysis
    /\ previous = NoAnalysis
    /\ saved = EmptyDict
    /\ input \in [scenes : SceneLists, pattern_name : MatcherPatternNames]
    /\ running = Idle

(***************************************************************************)
(* Operations                                                              *)
(***************************************************************************)
\* running fix_pattern_manager.py: pattern_manager.py is overwritten with fixed_content
fix_pattern_manager ==
    /\ pattern_manager_py = "current"
    /\ pattern_manager_py' = "fixed"
    /\ call' = [op |-> "fix_pattern_manager"]
    /\ ret' = EmptyDict
    /\ UNCHANGED <<library, patterns, projects, legacy, now, analysis, previous, saved, input, running>>

\* PatternManager.__init__: the table is the default one and each default file is written if absent
PatternManager_init ==
    /\ patterns' = default_patterns
    /\ library' = save_default_patterns(library)
    /\ call' = [op |-> "PatternManager"]
    /\ ret' = EmptyDict
    /\ UNCHANGED <<pattern_manager_py, projects, legacy, now, analysis, previous, saved, input, running>>

get_pattern_details(pattern_name) ==
    /\ call' = [op |-> "get_pattern_details", pattern_names |-> <<pattern_name>>]
    /\ ret' = pattern_details(library, patterns, pattern_name)
    /\ UNCHANGED <<pattern_manager_py, library, patterns, projects, legacy, now, analysis, previous, saved, input, running>>

create_custom_pattern(name, description, stages, psychological_functions, examples, based_on) ==
    LET base == pattern_details(library, patterns, based_on)
        data == custom_pattern_data(IF based_on # <<>> /\ "error" \notin DOMAIN base THEN base["pattern"] ELSE EmptyDict,
                                    name, description, stages, psychological_functions, examples, based_on, now)
    IN /\ call' = [op |-> "create_custom_pattern", name |-> name, stages |-> stages,
                   pattern_names |-> IF based_on # <<>> THEN <<based_on>> ELSE <<>>]
       /\ IF based_on # <<>> /\ "error" \in DOMAIN base
          THEN /\ ret' = base
               /\ UNCHANGED <<library, patterns, now>>
          ELSE /\ now <= MaxClock
               /\ library' = put(library, pattern_id_of(name), json_dump(data))
               /\ patterns' = put(patterns, pattern_id_of(name), data)
               /\ ret' = [pattern |-> data, output_path |-> pattern_path(pattern_id_of(name))]
               /\ now' = now + 1
       /\ UNCHANGED <<pattern_manager_py, projects, legacy, analysis, previous, saved, input, running>>

\* `sources` is the patterns dict in iteration order: a sequence of [name, weight]
create_hybrid_pattern(name, description, sources, custom_stages) ==
    LET details(i) == pattern_details(library, patterns, sources[i].name)
        missing == {i \in 1..Len(sources) : "error" \in DOMAIN details(i)}
        first_missing == CHOOSE i \in missing : \A j \in missing : i <= j
        sorted == sort_by_weight([i \in 1..Len(sources) |->
                        [name |-> sources[i].name, pattern |-> details(i)["pattern"], weight |-> sources[i].weight]])
        data == hybrid_pattern_data(sorted, name, description, custom_stages, now)
    IN /\ call' = [op |-> "create_hybrid_pattern", name |-> name,
                   pattern_names |-> [i \in 1..Len(sources) |-> sources[i].name],
                   weights |-> [i \in 1..Len(sources) |-> sources[i].weight],
                   custom_stages |-> custom_stages]
       /\ IF missing # {}
          THEN /\ ret' = details(first_missing)
               /\ UNCHANGED <<library, patterns, now>>
          ELSE IF ~has_custom_stages(custom_stages) /\ hybrid_raises(sorted)
          THEN /\ ret' = [raised |-> "ZeroDivisionError"]
               /\ UNCHANGED <<library, patterns, now>>
          ELSE /\ now <= MaxClock
               /\ library' = put(library, pattern_id_of(name), json_dump(data))
               /\ patterns' = put(patterns, pattern_id_of(name), data)
               /\ ret' = [pattern |-> data, output_path |-> pattern_path(pattern_id_of(name))]
               /\ now' = now + 1
       /\ UNCHANGED <<pattern_manager_py, projects, legacy, analysis, previous, saved, input, running>>

\* the history of saved ids after a save of `id` under `element_type` in `project_id`
record_saved(project_id, element_type, id) ==
    put(saved, project_id,
        [saved[project_id] EXCEPT !.ids = put(@, element_type, get(@, element_type, {}) \cup {id})])

\* the analysis_result dict
build_analysis_result(fixed, pattern_name, adherence_level, stages, result, time) ==
    [pattern |-> pattern_name, adherence_level |-> adherence_level,
     required_stages |-> result.required_stages,
     matched_stages |-> result.matched_stages, missing_stages |-> result.missing_stages,
     match_score |-> result.match_score,
     analysis |-> analysis_text(fixed, result, stages, adherence_level),
     created_at |-> time]

\* the part of analyze_narrative after the pattern is resolved
analyze_resolved(scenes, pattern_name, project_id, adherence_level, stages, analysis_result, id) ==
    /\ now <= MaxClock
    /\ now' = now + 1
    /\ analysis' = [valid |-> TRUE, version |-> pattern_manager_py, scenes |-> scenes, stages |-> stages,
                    result |-> analysis_result]
    /\ previous' = analysis
    /\ IF first_scene_raises(fixed_version, scenes)
       THEN /\ ret' = [raised |-> "KeyError"]
            /\ UNCHANGED <<projects, legacy, saved>>
       ELSE IF project_id # <<>>
       THEN IF project_id \notin DOMAIN projects
            THEN /\ ret' = get_project(projects, project_id)
                 /\ UNCHANGED <<projects, legacy, saved>>
            ELSE \E done \in {save_element(projects, legacy, project_id, analyses, analysis_result, id, now)} :
                 /\ projects' = done.projects
                 /\ legacy' = done.legacy
                 /\ ret' = done.ret
                 /\ saved' = record_saved(project_id, analyses, done.id)
       ELSE /\ legacy' = put(legacy, analyses, put(legacy[analyses], id, json_dump(analysis_result)))
            /\ ret' = put(analysis_result, "output_path", <<"a","n","a","l","y","s","e","s","/">> \o id \o dot_json)
            /\ UNCHANGED <<projects, saved>>

analyze_narrative(scenes, pattern_name, project_id, adherence_level) ==
    /\ call' = [op |-> "analyze_narrative", pattern_names |-> <<pattern_name>>, project_id |-> project_id]
    /\ UNCHANGED <<pattern_manager_py, library, patterns, input, running>>
    /\ \E details \in {pattern_details(library, patterns, pattern_name)} :
          IF "error" \in DOMAIN details
          THEN /\ ret' = details
               /\ UNCHANGED <<projects, legacy, now, analysis, previous, saved>>
          ELSE analyze_resolved(scenes, pattern_name, project_id, adherence_level, details["pattern"]["stages"],
                    build_analysis_result(fixed_version, pattern_name, adherence_level, details["pattern"]["stages"],
                        run_matcher(fixed_version, details["pattern"]["stages"], scenes, adherence_level), now),
                    IF first_scene_raises(fixed_version, scenes) THEN <<>>
                    ELSE analysis_id(fixed_version, scenes, pattern_name))

create_project(name, description, project_type) ==
    LET dir_name == _sanitize_name(name)
        old_files == IF dir_name \in DOMAIN projects THEN projects[dir_name].files ELSE EmptyDict
        files == [t \in DOMAIN old_files \cup {project_subdirs[i] : i \in 1..Len(project_subdirs)} |->
                    get(old_files, t, EmptyDict)]
        metadata == new_metadata(name, description, project_type, now)
    IN /\ now <= MaxClock
       /\ call' = [op |-> "create_project", name |-> name]
       /\ projects' = put(projects, dir_name, [metadata |-> json_dump(metadata), files |-> files])
       /\ ret' = put(put(metadata, "output_path", metadata_path(dir_name)), "project_dir", <<"p","r","o","j","e","c","t","s","/">> \o dir_name)
       /\ saved' = put(saved, dir_name, [ids |-> EmptyDict, only_saves |-> TRUE])
       /\ now' = now + 1
       /\ UNCHANGED <<pattern_manager_py, library, patterns, legacy, analysis, previous, input, running>>

\* metadata.update(updates): keys the metadata does not have are added
update_project_adding_keys(project_id, updates) ==
    LET metadata == json_load(projects[project_id].metadata)
        merged == [k \in DOMAIN metadata \cup DOMAIN updates |-> IF k \in DOMAIN updates THEN updates[k] ELSE metadata[k]]
        metadata2 == put(merged, "modified_at", now)
    IN /\ call' = [op |-> "update_project", project_id |-> project_id, updates |-> updates]
       /\ IF project_id \notin DOMAIN projects
          THEN /\ ret' = get_project(projects, project_id)
               /\ UNCHANGED <<projects, saved, now>>
          ELSE /\ now <= MaxClock
               /\ projects' = put(projects, project_id, [projects[project_id] EXCEPT !.metadata = json_dump(metadata2)])
               /\ ret' = put(put(metadata2, "output_path", metadata_path(project_id)), "project_dir", <<"p","r","o","j","e","c","t","s","/">> \o project_id)
               /\ saved' = IF "elements" \in DOMAIN updates
                           THEN put(saved, project_id, [saved[project_id] EXCEPT !.only_saves = FALSE])
                           ELSE saved
               /\ now' = now + 1
       /\ UNCHANGED <<pattern_manager_py, library, patterns, legacy, analysis, previous, input, running>>

update_project(project_id, updates) ==
    LET metadata == json_load(projects[project_id].metadata)
        merged == [k \in DOMAIN metadata |-> IF k \in DOMAIN updates THEN updates[k] ELSE metadata[k]]
        metadata2 == put(merged, "modified_at", now)
    IN /\ call' = [op |-> "update_project", project_id |-> project_id, updates |-> updates]
       /\ IF project_id \notin DOMAIN projects
          THEN /\ ret' = get_project(projects, project_id)
               /\ UNCHANGED <<projects, saved, now>>
          ELSE /\ now <= MaxClock
               /\ projects' = put(projects, project_id, [projects[project_id] EXCEPT !.metadata = json_dump(metadata2)])
               /\ ret' = put(put(metadata2, "output_path", metadata_path(project_id)), "project_dir", <<"p","r","o","j","e","c","t","s","/">> \o project_id)
               /\ saved' = IF "elements" \in DOMAIN updates
                           THEN put(saved, project_id, [saved[project_id] EXCEPT !.only_saves = FALSE])
                           ELSE saved
               /\ now' = now + 1
       /\ UNCHANGED <<pattern_manager_py, library, patterns, legacy, analysis, previous, input, running>>

save_element_call(project_id, element_type, element_data, element_id) ==
       /\ call' = [op |-> "save_element", project_id |-> project_id, element_type |-> element_type,
                   element_data |-> element_data, element_id |-> element_id]
       /\ IF project_id \notin DOMAIN projects
          THEN /\ ret' = get_project(projects, project_id)
               /\ UNCHANGED <<projects, legacy, saved, now>>
          ELSE \E done \in {save_element(projects, legacy, project_id, element_type, element_data, element_id, now)} :
               /\ now <= MaxClock
               /\ projects' = done.projects
               /\ legacy' = done.legacy
               /\ ret' = done.ret
               /\ saved' = record_saved(project_id, element_type, done.id)
               /\ now' = now + 1
       /\ UNCHANGED <<pattern_manager_py, library, patterns, analysis, previous, input, running>>

get_element(project_id, element_type, element_id) ==
    /\ call' = [op |-> "get_element", project_id |-> project_id, element_type |-> element_type, element_id |-> element_id]
    /\ ret' = get_element_result(projects, project_id, element_type, element_id)
    /\ UNCHANGED <<pattern_manager_py, library, patterns, projects, legacy, now, analysis, previous, saved, input, running>>

list_project_elements_call(project_id, element_type) ==
    /\ call' = [op |-> "list_project_elements", project_id |-> project_id, element_type |-> element_type]
    /\ ret' = list_project_elements(projects, project_id, element_type)
    /\ UNCHANGED <<pattern_manager_py, library, patterns, projects, legacy, now, analysis, previous, saved, input, running>>

\* the writes with the index updated before the element file is written
save_element_steps_index_first == <<"index", "file", "legacy">>

\* the three writes of save_element, in the order the code makes them
save_element_steps == <<"file", "index", "legacy">>

\* save_element up to its first write: the project check, the id, the created_at stamp
save_element_enters(project_id, element_type, element_data, element_id) ==
    /\ running = Idle
    /\ project_id \in DOMAIN projects
    /\ now <= MaxClock
    /\ call' = [op |-> "save_element", project_id |-> project_id, element_type |-> element_type,
                element_data |-> element_data, element_id |-> element_id]
    /\ running' = [pc |-> 1, project_id |-> project_id, element_type |-> element_type,
                   id |-> save_element_id(element_type, element_data, element_id, now),
                   data |-> stamp_created_at(element_data, now), time |-> now]
    /\ now' = now + 1
    /\ UNCHANGED <<pattern_manager_py, library, patterns, projects, legacy, ret, analysis, previous, saved, input>>

\* the next write of the save_element in progress; the last one returns
save_element_step ==
    /\ running # Idle
    /\ \E step \in {save_element_steps[running.pc]}, proj \in {projects[running.project_id]} :
          /\ projects' =
                IF step = "file"
                THEN put(projects, running.project_id,
                         [proj EXCEPT !.files = put(proj.files, running.element_type,
                             put(get(proj.files, running.element_type, EmptyDict), running.id, json_dump(running.data)))])
                ELSE IF step = "index"
                THEN put(projects, running.project_id,
                         [proj EXCEPT !.metadata = add_project_element(proj.metadata, running.project_id,
                             running.element_type, running.id, running.data, running.time)])
                ELSE projects
          /\ legacy' =
                IF step = "legacy" /\ running.element_type \in legacy_dirs
                THEN put(legacy, running.element_type,
                         put(legacy[running.element_type], running.id, json_dump(running.data)))
                ELSE legacy
          /\ saved' = IF step = "index" THEN record_saved(running.project_id, running.element_type, running.id)
                      ELSE saved
    /\ IF running.pc = Len(save_element_steps)
       THEN /\ running' = Idle
            /\ ret' = put(put(running.data, "id", running.id), "output_path",
                          element_path(running.project_id, running.element_type, running.id))
       ELSE /\ running' = [running EXCEPT !.pc = @ + 1]
            /\ UNCHANGED ret
    /\ UNCHANGED <<pattern_manager_py, library, patterns, now, call, analysis, previous, input>>

\* the process dies between two writes of save_element
crash ==
    /\ running # Idle
    /\ running.pc > 1
    /\ running' = Idle
    /\ call' = [op |-> "crash"]
    /\ ret' = [raised |-> "crash"]
    /\ UNCHANGED <<pattern_manager_py, library, patterns, projects, legacy, now, analysis, previous, saved, input>>

\* initialize.py run on the output directory
initialize_default_patterns ==
    /\ library' = save_default_patterns(library)
    /\ call' = [op |-> "initialize_default_patterns"]
    /\ ret' = EmptyDict
    /\ UNCHANGED <<pattern_manager_py, patterns, projects, legacy, now, analysis, previous, saved, input, running>>

(***************************************************************************)
(* Specifications                                                          *)
(***************************************************************************)
\* the matcher alone, on the scenes and pattern drawn by InitMatcher
analyze_input == \E a \in AdherenceLevels : analyze_narrative(input.scenes, input.pattern_name, <<>>, a)

NextMatcher ==
    \/ fix_pattern_manager
    \/ analyze_input

SpecMatcher == InitMatcher /\ [][NextMatcher]_vars

\* an element fetched by the last call, modified and about to be saved again
\* (SymbolicManager.apply_symbolic_theme)
Refetched ==
    IF call.op = "get_element" /\ "error" \notin DOMAIN ret THEN {put(ret, "modified_at", now)} ELSE {}

calls_get_pattern_details == \E n \in PatternNames : get_pattern_details(n)

\* a call that names an unknown pattern returns before it reads its other arguments, so it is
\* made with one choice of them
calls_create_custom_pattern ==
    \E n \in CustomNames, s \in CustomStageLists, b \in {<<>>, heroes_journey, no_such_pattern} :
        /\ b # no_such_pattern \/ (n = Transformation /\ s # <<>>)
        /\ create_custom_pattern(n, "a custom pattern", s, IF b = <<>> THEN <<>> ELSE <<"Growth">>, <<>>, b)

calls_create_hybrid_pattern ==
    \E h \in HybridCalls : create_hybrid_pattern(<<"M","i","x">>, "a hybrid", h.sources, h.custom_stages)

calls_analyze_narrative ==
    \E s \in StoreScenes, n \in AnalyzedNames, p \in {<<>>} \cup ProjectIds, a \in StoreAdherenceLevels :
        /\ n # no_such_pattern \/ (s = <<SceneA>> /\ p = project_p)
        /\ p # project_q \/ s = <<SceneA>>
        /\ analyze_narrative(s, n, p, a)

calls_create_project == create_project(ProjectP, "a project", "story")

\* a call on the project that is never created returns the not-found result whatever its other
\* arguments are, so each operation is called on it with one choice of them
calls_update_project ==
    \E p \in ProjectIds, u \in Patches :
        /\ p = project_p \/ u = [status |-> "done"]
        /\ update_project(p, u)

calls_save_element ==
    \E p \in ProjectIds, t \in ElementTypes, d \in Payloads \cup Refetched, e \in ElementIds :
        /\ p = project_p \/ (t = characters /\ d = PayloadNamed /\ e = ann)
        /\ save_element_call(p, t, d, e)

calls_get_element ==
    \E p \in ProjectIds, t \in ElementTypes, e \in {ann, zed} :
        /\ p = project_p \/ (t = characters /\ e = ann)
        /\ get_element(p, t, e)

calls_list_project_elements ==
    \E p \in ProjectIds, t \in ElementTypes :
        /\ p = project_p \/ t = characters
        /\ list_project_elements_call(p, t)

\* the element store alone
NextStore ==
    \/ calls_create_project
    \/ calls_update_project
    \/ calls_save_element
    \/ calls_get_element
    \/ calls_list_project_elements

SpecStore == Init /\ [][NextStore]_vars

\* the index of one project over runs one call longer: the clock starts a tick earlier
InitIndex ==
    /\ pattern_manager_py = "current"
    /\ library = default_files
    /\ patterns = default_patterns
    /\ projects = EmptyDict
    /\ legacy = [t \in legacy_dirs |-> EmptyDict]
    /\ now = 0
    /\ call = NoCall
    /\ ret = EmptyDict
    /\ analysis = NoAnalysis
    /\ previous = NoAnalysis
    /\ saved = EmptyDict
    /\ input = [scenes |-> <<>>, pattern_name |-> heroes_journey]
    /\ running = Idle

saves_to_project ==
    \E t \in ElementTypes, d \in {PayloadNamed, PayloadOwnId, PayloadStamped}, e \in ElementIds :
        save_element_call(project_p, t, d, e)

marks_project_done == update_project(project_p, [status |-> "done"])

NextIndex ==
    \/ calls_create_project
    \/ saves_to_project
    \/ marks_project_done

SpecIndex == InitIndex /\ [][NextIndex]_vars

\* hybrids of every shape: weights in both orders, ties, weights that ask for more stages
\* than the target, a weight that asks for one stage, a hybrid of a hybrid, one source,
\* custom stages of one and of thirteen stages and an empty list of them
WideHybridCalls ==
    [sources : {<<[name |-> heroes_journey, weight |-> 7], [name |-> transformation, weight |-> 3]>>,
                <<[name |-> transformation, weight |-> 3], [name |-> heroes_journey, weight |-> 7]>>,
                <<[name |-> transformation, weight |-> 5], [name |-> voyage_and_return, weight |-> 5]>>,
                <<[name |-> voyage_and_return, weight |-> 5], [name |-> transformation, weight |-> 5]>>,
                <<[name |-> heroes_journey, weight |-> 9], [name |-> transformation, weight |-> 9]>>,
                <<[name |-> voyage_and_return, weight |-> 1], [name |-> heroes_journey, weight |-> 9]>>,
                <<[name |-> <<"m","i","x">>, weight |-> 5], [name |-> voyage_and_return, weight |-> 5]>>,
                <<[name |-> heroes_journey, weight |-> 10]>>},
     custom_stages : {<<>>}]
    \cup [sources : {<<[name |-> voyage_and_return, weight |-> 2], [name |-> transformation, weight |-> 8]>>,
                      <<[name |-> voyage_and_return, weight |-> 1], [name |-> heroes_journey, weight |-> 9]>>,
                      <<[name |-> no_such_pattern, weight |-> 5], [name |-> transformation, weight |-> 5]>>},
          custom_stages : {<< <<<<"O","n","l","y">>>> >>, <<HeroesJourneyStages \o <<<<"O","n","l","y">>>>>>, << <<>> >>}]

creates_hybrid == \E h \in WideHybridCalls : create_hybrid_pattern(<<"M","i","x">>, "a hybrid", h.sources, h.custom_stages)

looks_up_hybrid == get_pattern_details(<<"M","I","X">>)

NextHybrid ==
    \/ creates_hybrid
    \/ looks_up_hybrid
    \/ calls_create_custom_pattern

SpecHybrid == InitLibrary /\ [][NextHybrid]_vars

\* a project patched in every way between saves
AllPatches == Patches \cup {EmptyDict, [modified_at |-> 0, status |-> "done", bogus |-> 1]}

patches_project == \E u \in AllPatches : update_project(project_p, u)

NextPatches ==
    \/ calls_create_project
    \/ saves_to_project
    \/ patches_project

SpecPatches == Init /\ [][NextPatches]_vars

\* patterns matched against and created again under the same name
analyzes_stored_pattern ==
    \E s \in {<<SceneA>>, <<SceneB>>}, n \in {transformation, my_arc, <<"m","i","x">>} :
        analyze_narrative(s, n, <<>>, 4)

NextVersions ==
    \/ analyzes_stored_pattern
    \/ calls_create_custom_pattern
    \/ calls_create_hybrid_pattern
    \/ calls_get_pattern_details

SpecVersions == Init /\ [][NextVersions]_vars

\* the output directory before anything was written to it: no pattern file, and no
\* PatternManager (its table is empty until one is constructed)
InitBootstrap ==
    /\ pattern_manager_py = "current"
    /\ library = EmptyDict
    /\ patterns = EmptyDict
    /\ projects = EmptyDict
    /\ legacy = [t \in legacy_dirs |-> EmptyDict]
    /\ now = MaxClock - 1
    /\ call = NoCall
    /\ ret = EmptyDict
    /\ analysis = NoAnalysis
    /\ previous = NoAnalysis
    /\ saved = EmptyDict
    /\ input = [scenes |-> <<>>, pattern_name |-> heroes_journey]
    /\ running = Idle

creates_after_construction == patterns # EmptyDict /\ calls_create_custom_pattern

looks_up_after_construction == patterns # EmptyDict /\ calls_get_pattern_details

NextBootstrap ==
    \/ PatternManager_init
    \/ initialize_default_patterns
    \/ creates_after_construction
    \/ looks_up_after_construction

SpecBootstrap == InitBootstrap /\ [][NextBootstrap]_vars

\* save_element taken write by write, with crashes, between the other calls of the store
enters_save_element ==
    \E t \in ElementTypes, d \in {PayloadNamed, PayloadOwnId}, e \in ElementIds :
        save_element_enters(project_p, t, d, e)

creates_between_saves == running = Idle /\ calls_create_project

updates_between_saves ==
    /\ running = Idle
    /\ \E u \in {[status |-> "done"], [elements |-> EmptyDict]} : update_project(project_p, u)

reads_between_saves ==
    /\ running = Idle
    /\ \/ get_element(project_p, characters, ann)
       \/ list_project_elements_call(project_p, characters)

NextSteps ==
    \/ creates_between_saves
    \/ enters_save_element
    \/ save_element_step
    \/ crash
    \/ updates_between_saves
    \/ reads_between_saves

SpecSteps == Init /\ [][NextSteps]_vars

\* the pattern library, with one project to analyse into
NextLibrary ==
    \/ fix_pattern_manager
    \/ PatternManager_init
    \/ calls_get_pattern_details
    \/ calls_create_custom_pattern
    \/ calls_create_hybrid_pattern
    \/ calls_analyze_narrative
    \/ calls_create_project

SpecLibrary == InitLibrary /\ [][NextLibrary]_vars

Next ==
    \/ fix_pattern_manager
    \/ PatternManager_init
    \/ calls_get_pattern_details
    \/ calls_create_custom_pattern
    \/ calls_create_hybrid_pattern
    \/ calls_analyze_narrative
    \/ calls_create_project
    \/ calls_update_project
    \/ calls_save_element
    \/ calls_get_element
    \/ calls_list_project_elements

Spec == Init /\ [][Next]_vars

(***************************************************************************)
(* Properties                                                              *)
(***************************************************************************)
\* does the name, lower-cased, name a library file or an entry of the in-memory table
resolves(pattern_name) == lower(pattern_name) \in DOMAIN library \cup DOMAIN patterns

\* the last call was an analyze_narrative that resolved its pattern and was given no project,
\* or a project that exists: `analysis` is what that call built
analyzed ==
    /\ call.op = "analyze_narrative"
    /\ resolves(call.pattern_names[1])
    /\ call.project_id = <<>> \/ call.project_id \in DOMAIN projects
    /\ analysis.valid

\* is `ret` stored under `id`: in the project's analyses directory, or in the flat one
persisted_under(id) ==
    IF call.project_id = <<>>
    THEN /\ id \in DOMAIN legacy[analyses]
         /\ "output_path" \in DOMAIN ret
         /\ ret["output_path"] = <<"a","n","a","l","y","s","e","s","/">> \o id \o dot_json
         /\ json_load(legacy[analyses][id]) = [k \in DOMAIN ret \ {"output_path"} |-> ret[k]]
    ELSE /\ id \in DOMAIN get(projects[call.project_id].files, analyses, EmptyDict)
         /\ "output_path" \in DOMAIN ret
         /\ ret["output_path"] = element_path(call.project_id, analyses, id)
         /\ json_load(projects[call.project_id].files[analyses][id]) = [k \in DOMAIN ret \ {"output_path", "id"} |-> ret[k]]

C2_AdherenceDecoupling ==
    (/\ analysis.valid
     /\ previous.valid
     /\ analysis.version = previous.version
     /\ analysis.scenes = previous.scenes
     /\ analysis.stages = previous.stages)
    => /\ analysis.result.matched_stages = previous.result.matched_stages
       /\ analysis.result.missing_stages = previous.result.missing_stages
       /\ analysis.result.match_score.num = previous.result.match_score.num

\* C3: for each stage, the first scene in list order whose lower-case text contains the
\* lower-cased stage name, or whose pattern_stage equals the stage name case-insensitively, is
\* the scene recorded for the stage, with quality "exact": no later scene is recorded, and the
\* stage is neither a fallback match nor missing.
C3_FirstExactSceneWins ==
    analysis.valid =>
        LET stages == analysis.stages
            matched == analysis.result.matched_stages
            views == scene_views(analysis.scenes)
            matching(i) == {s \in DOMAIN views :
                                \/ contains(views[s].scene_text, lower(stages[i]))
                                \/ views[s].pattern_stage_lower = lower(stages[i])}
        IN \A i \in DOMAIN stages :
              matching(i) # {} =>
                 /\ stages[i] \notin {analysis.result.missing_stages[k] : k \in DOMAIN analysis.result.missing_stages}
                 /\ \A k \in DOMAIN matched :
                       matched[k].stage = stages[i] =>
                          /\ matched[k].match_quality = "exact"
                          /\ matched[k].scene = views[CHOOSE s \in matching(i) : \A r \in matching(i) : s <= r].title_fixed

\* C4: a stage whose name occurs in one of a scene's text fields (title or scene_title,
\* description, pattern_stage, conflict, goal, outcome, notes) is matched exactly; so at
\* adherence level 1.0, with scenes of scene_title, pattern_stage and conflict only, every
\* stage that is some scene's pattern_stage is an exact match and matched_stages is not empty.
C4_AnyTextFieldMatchesExactly ==
    analysis.valid =>
        LET stages == analysis.stages
            scenes == analysis.scenes
            matched == analysis.result.matched_stages
            fields(scene) == {title_fixed(scene), get(scene, "description", <<>>), get(scene, "pattern_stage", <<>>),
                              get(scene, "conflict", <<>>), get(scene, "goal", <<>>), get(scene, "outcome", <<>>),
                              get(scene, "notes", <<>>)}
            is_exact(stage) == \E k \in DOMAIN matched : matched[k].stage = stage /\ matched[k].match_quality = "exact"
            test_shaped == /\ scenes # <<>>
                           /\ \A s \in DOMAIN scenes : DOMAIN scenes[s] = {"scene_title", "pattern_stage", "conflict"}
        IN /\ \A i \in DOMAIN stages :
                (\E s \in DOMAIN scenes : \E f \in fields(scenes[s]) : contains(lower(f), lower(stages[i])))
                    => is_exact(stages[i])
           /\ (analysis.result.adherence_level = 4 /\ test_shaped) =>
                 /\ \A i \in DOMAIN stages :
                       (\E s \in DOMAIN scenes : scenes[s]["pattern_stage"] = stages[i]) => is_exact(stages[i])
                 /\ (\E i \in DOMAIN stages : \E s \in DOMAIN scenes : scenes[s]["pattern_stage"] = stages[i])
                        => matched # <<>>

\* C5: required_stages is max(1, round(len(stages) * adherence_level)), the product rounded to
\* the nearest integer with ties to the even one, and is at least 1 at every adherence level;
\* match_score is len(matched_stages) / required_stages, unclamped; at adherence level 1.0
\* the denominator is len(stages).
C5_RequiredStagesAndScore ==
    analysis.valid =>
        LET n == Len(analysis.stages)
            quarters == n * analysis.result.adherence_level
            required == analysis.result.required_stages
        IN /\ required >= 1
           /\ \E m \in 0..n :
                 /\ 4 * m - quarters \in -2..2
                 /\ 4 * m - quarters \in {-2, 2} => m % 2 = 0
                 /\ required = IF m < 1 THEN 1 ELSE m
           /\ analysis.result.match_score = [num |-> Len(analysis.result.matched_stages), den |-> required]
           /\ (analysis.result.adherence_level = 4 /\ n >= 1) => analysis.result.match_score.den = n

\* a match_score above 1.0: below adherence level 1.0, more stages matched than required
C5_Witness ==
    /\ analysis.valid
    /\ analysis.result.adherence_level < 4
    /\ analysis.result.match_score.num > analysis.result.match_score.den

\* C6: an analysis of the empty scene list against a resolved pattern, at any adherence
\* level, reports every stage missing in pattern order, no matched stage and match_score 0
\* (12 missing stages for heroes_journey), and the call returns the stored result: no error,
\* nothing raised.
C6_EmptySceneList ==
    (analyzed /\ analysis.scenes = <<>>) =>
        /\ "error" \notin DOMAIN ret
        /\ "raised" \notin DOMAIN ret
        /\ ret["matched_stages"] = <<>>
        /\ ret["missing_stages"] = pattern_details(library, patterns, call.pattern_names[1])["pattern"]["stages"]
        /\ ret["match_score"].num = 0
        /\ lower(call.pattern_names[1]) = heroes_journey => Len(ret["missing_stages"]) = 12
        /\ \E id \in DOMAIN legacy[analyses] \cup UNION {DOMAIN get(projects[p].files, analyses, EmptyDict) : p \in DOMAIN projects} :
              persisted_under(id)

\* the empty scene list analysed against heroes_journey below adherence level 1.0
C6_Witness ==
    /\ analyzed
    /\ analysis.scenes = <<>>
    /\ call.pattern_names[1] = heroes_journey
    /\ analysis.result.adherence_level = 2
    /\ "missing_stages" \in DOMAIN ret

\* C7: a call of get_pattern_details, create_custom_pattern, create_hybrid_pattern or
\* analyze_narrative that names a pattern which does not resolve returns a result with an
\* error and the ids of the in-memory table, raises nothing, and leaves the library files,
\* the in-memory table, the projects and the flat directories as they were, also when other
\* names of the same call resolve.
C7_UnknownPatternName ==
    [][("pattern_names" \in DOMAIN call'
        /\ \E i \in DOMAIN call'.pattern_names : ~resolves(call'.pattern_names[i]))
       => /\ "error" \in DOMAIN ret'
          /\ "raised" \notin DOMAIN ret'
          /\ "available_patterns" \in DOMAIN ret'
          /\ ret'["available_patterns"] = DOMAIN patterns
          /\ UNCHANGED <<library, patterns, projects, legacy>>]_vars

\* a hybrid call refused for one name while another of its names resolves, after a custom
\* pattern was stored
C7_Witness ==
    /\ call.op = "create_hybrid_pattern"
    /\ "error" \in DOMAIN ret
    /\ \E i \in DOMAIN call.pattern_names : resolves(call.pattern_names[i])
    /\ \E i \in DOMAIN call.pattern_names : ~resolves(call.pattern_names[i])
    /\ my_arc \in DOMAIN library

\* C8: analyze_narrative raises nothing when scene fields are absent and stores its result
\* under analysis-{slug}-{pattern}: the slug of scene_title when the first scene has no
\* title, 'unnamed' for the empty scene list, and a default when the first scene has neither
\* title nor scene_title.
C8_MissingOptionalFields ==
    analyzed =>
        LET scenes == analysis.scenes
            slug(title) == replace(lower(title), " ", "_")
            id(title) == <<"a","n","a","l","y","s","i","s","-">> \o slug(title) \o <<"-">> \o call.pattern_names[1]
        IN /\ "raised" \notin DOMAIN ret
           /\ "error" \notin DOMAIN ret
           /\ scenes = <<>> => persisted_under(id(unnamed))
           /\ (scenes # <<>> /\ "title" \notin DOMAIN scenes[1] /\ "scene_title" \in DOMAIN scenes[1])
                 => persisted_under(id(scenes[1]["scene_title"]))
           /\ (scenes # <<>> /\ "title" \notin DOMAIN scenes[1] /\ "scene_title" \notin DOMAIN scenes[1])
                 => \E i \in DOMAIN legacy[analyses] \cup UNION {DOMAIN get(projects[p].files, analyses, EmptyDict) : p \in DOMAIN projects} :
                       persisted_under(i)

\* the step from a successful save_element to the get_element of what it saved
saved_then_fetched ==
    /\ call.op = "save_element"
    /\ "error" \notin DOMAIN ret
    /\ call'.op = "get_element"
    /\ call'.project_id = call.project_id
    /\ call'.element_type = call.element_type
    /\ call'.element_id = ret["id"]

\* C9 as stated: save_element followed by get_element of the same element returns every
\* field of the saved payload with its value unchanged, and id and created_at; created_at
\* is the payload's when it had one and the time of the save when it had none.
C9_RoundTripEveryField ==
    [][saved_then_fetched =>
          /\ "error" \notin DOMAIN ret'
          /\ \A k \in DOMAIN call.element_data : k \in DOMAIN ret' /\ ret'[k] = call.element_data[k]
          /\ "id" \in DOMAIN ret' /\ ret'["id"] = call'.element_id
          /\ "created_at" \in DOMAIN ret'
          /\ ret'["created_at"] = IF "created_at" \in DOMAIN call.element_data THEN call.element_data["created_at"] ELSE now - 1]_vars

\* C9, amended: the same for every payload field other than id and output_path, which
\* get_element sets to the element's id and path whatever the payload held.
C9_RoundTripExceptIdAndPath ==
    [][saved_then_fetched =>
          /\ "error" \notin DOMAIN ret'
          /\ \A k \in DOMAIN call.element_data \ {"id", "output_path"} : k \in DOMAIN ret' /\ ret'[k] = call.element_data[k]
          /\ DOMAIN ret' = DOMAIN call.element_data \cup {"id", "output_path", "created_at"}
          /\ ret'["id"] = call'.element_id
          /\ ret'["output_path"] = element_path(call'.project_id, call'.element_type, call'.element_id)
          /\ ret'["created_at"] = IF "created_at" \in DOMAIN call.element_data THEN call.element_data["created_at"] ELSE now - 1]_vars

\* a fetched element that was saved again and fetched again: it keeps the created_at of its
\* first save and carries the modified_at set before the second
C9_Witness ==
    /\ call.op = "get_element"
    /\ "error" \notin DOMAIN ret
    /\ "modified_at" \in DOMAIN ret
    /\ ret["created_at"] < ret["modified_at"]

\* C10: in a project whose index was written by save_element alone since the project was
\* created, the index of every element type holds exactly one entry for each id saved under
\* that type, however often it was saved, and no entry for any other id.
C10_IndexOneEntryPerSavedId ==
    \A p \in DOMAIN projects :
        saved[p].only_saves =>
            \A t \in DOMAIN saved[p].ids \cup DOMAIN json_load(projects[p].metadata)["elements"] :
                LET refs == get(json_load(projects[p].metadata)["elements"], t, <<>>)
                    ids == get(saved[p].ids, t, {})
                IN /\ \A id \in ids : Cardinality({i \in DOMAIN refs : refs[i].id = id}) = 1
                   /\ \A i \in DOMAIN refs : refs[i].id \in ids

\* a fetched element saved again under its id: the id was saved twice
C10_Witness ==
    /\ call.op = "save_element"
    /\ "error" \notin DOMAIN ret
    /\ "modified_at" \in DOMAIN call.element_data
    /\ call.element_data["id"] = ret["id"]
    /\ saved[call.project_id].only_saves
    /\ Len(json_load(projects[call.project_id].metadata)["elements"][call.element_type]) = 1

\* C11: a successful save_element changes one reference of the project's index and nothing
\* else of the metadata but modified_at: the reference is appended when its id is new for the
\* type and replaces the entry with that id, at its position, otherwise; afterwards it holds
\* the name, path and created_at of this save; the other entries of the type, the lists of
\* the other types and the other metadata fields are as they were.
C11_SaveChangesOneReference ==
    [][(call'.op = "save_element" /\ "error" \notin DOMAIN ret') =>
          LET p == call'.project_id
              t == call'.element_type
              id == ret'["id"]
              old == json_load(projects[p].metadata)
              new == json_load(projects'[p].metadata)
              refs == get(old["elements"], t, <<>>)
              refs2 == new["elements"][t]
              entry == [id |-> id,
                        name |-> IF get(call'.element_data, "name", <<>>) # <<>> THEN call'.element_data["name"]
                                 ELSE IF get(call'.element_data, "title", <<>>) # <<>> THEN call'.element_data["title"]
                                 ELSE id,
                        path |-> <<"p","r","o","j","e","c","t","s","/">> \o p \o <<"/">> \o t \o <<"/">> \o id \o <<".","j","s","o","n">>,
                        created_at |-> ret'["created_at"]]
              at == {i \in DOMAIN refs : refs[i].id = id}
          IN /\ DOMAIN new = DOMAIN old
             /\ \A k \in DOMAIN old \ {"elements", "modified_at"} : new[k] = old[k]
             /\ DOMAIN new["elements"] = DOMAIN old["elements"] \cup {t}
             /\ \A u \in DOMAIN old["elements"] \ {t} : new["elements"][u] = old["elements"][u]
             /\ Cardinality(at) <= 1
             /\ IF at = {} THEN refs2 = Append(refs, entry)
                ELSE /\ Len(refs2) = Len(refs)
                     /\ \A i \in DOMAIN refs : refs2[i] = IF i \in at THEN entry ELSE refs[i]
             /\ \A q \in DOMAIN projects \ {p} : projects'[q] = projects[q]]_vars

\* the first of two entries of a type overwritten in place by the last save, which carried
\* its own created_at
C11_Witness ==
    /\ call.op = "save_element"
    /\ "error" \notin DOMAIN ret
    /\ LET refs == json_load(projects[call.project_id].metadata)["elements"][call.element_type]
       IN /\ Len(refs) = 2
          /\ refs[1].id = ret["id"]
          /\ refs[1].created_at = 0
          /\ refs[2].id # ret["id"]

\* C12: get_element answers from the element file and list_project_elements from the
\* project's index: get_element returns the content of the file, with the element's id and
\* path, and list_project_elements of a type returns exactly the entries the index holds for
\* the type, whether or not the files and the index agree.
C12_GetReadsFileListReadsIndex ==
    /\ (/\ call.op = "get_element"
        /\ call.project_id \in DOMAIN projects
        /\ call.element_id \in DOMAIN get(projects[call.project_id].files, call.element_type, EmptyDict))
       => LET content == json_load(projects[call.project_id].files[call.element_type][call.element_id])
          IN /\ \A k \in DOMAIN content \ {"id", "output_path"} : k \in DOMAIN ret /\ ret[k] = content[k]
             /\ DOMAIN ret = DOMAIN content \cup {"id", "output_path"}
             /\ ret["id"] = call.element_id
    /\ (call.op = "list_project_elements" /\ "error" \notin DOMAIN ret)
       => LET refs == get(json_load(projects[call.project_id].metadata)["elements"], call.element_type, <<>>)
          IN ret["listing"] = {[id |-> refs[i].id, name |-> refs[i].name, path |-> refs[i].path] : i \in DOMAIN refs}

\* the entries the index of project p holds for type t
index_of(projs, p, t) == get(json_load(projs[p].metadata)["elements"], t, <<>>)

\* the element file of id is on disk and the index has no entry for it, or one that gives
\* another name or created_at than the file
unindexed(projs, p, t, id) ==
    /\ p \in DOMAIN projs
    /\ id \in DOMAIN get(projs[p].files, t, EmptyDict)
    /\ LET content == json_load(projs[p].files[t][id])
           refs == index_of(projs, p, t)
       IN ~ \E i \in DOMAIN refs :
              /\ refs[i].id = id
              /\ refs[i].created_at = content["created_at"]
              /\ refs[i].name = IF get(content, "name", <<>>) # <<>> THEN content["name"]
                                ELSE IF get(content, "title", <<>>) # <<>> THEN content["title"] ELSE id

\* C13: save_element writes the element file, then the index, then the legacy mirror. In
\* every state, between the writes and after a crash included, every id the index holds has
\* its element file; a step that changes the index entry of an id finds the file of that id
\* already written with the content being saved, and a step that changes the legacy mirror
\* of an id finds file and index entry written; what a crash leaves is an element file whose
\* index entry is missing or stale, and it stays so through every step that is not part of
\* a later save_element of that id.
C13_FileThenIndexThenLegacy ==
    /\ [](\A p \in DOMAIN projects : \A t \in DOMAIN json_load(projects[p].metadata)["elements"] :
             \A i \in DOMAIN index_of(projects, p, t) :
                 index_of(projects, p, t)[i].id \in DOMAIN get(projects[p].files, t, EmptyDict))
    /\ [][/\ \A p \in DOMAIN projects, t \in ElementTypes :
                LET old == index_of(projects, p, t)
                    new == index_of(projects', p, t)
                IN \A i \in DOMAIN new :
                      (~ \E j \in DOMAIN old : old[j] = new[i]) =>
                          /\ new[i].id \in DOMAIN get(projects[p].files, t, EmptyDict)
                          /\ json_load(projects[p].files[t][new[i].id])["created_at"] = new[i].created_at
                          /\ ~ unindexed(projects', p, t, new[i].id)
                          /\ projects'[p].files = projects[p].files
                          /\ legacy' = legacy
          /\ \A t \in legacy_dirs : \A id \in DOMAIN legacy'[t] :
                (id \notin DOMAIN legacy[t] \/ legacy'[t][id] # legacy[t][id]) =>
                    /\ projects' = projects
                    /\ \E p \in DOMAIN projects :
                          /\ id \in DOMAIN get(projects[p].files, t, EmptyDict)
                          /\ projects[p].files[t][id] = legacy'[t][id]
                          /\ ~ unindexed(projects, p, t, id)
          /\ \A p \in DOMAIN projects, t \in ElementTypes : \A id \in DOMAIN get(projects[p].files, t, EmptyDict) :
                (/\ unindexed(projects, p, t, id)
                 /\ ~ (running # Idle /\ running.project_id = p /\ running.element_type = t /\ running.id = id))
                => unindexed(projects', p, t, id)]_vars

\* a crash after the file of a save under an indexed id was rewritten: the file has the new
\* name, the index still the old one, and a later call found it so
C13_Witness ==
    /\ running = Idle
    /\ call.op = "get_element"
    /\ "error" \notin DOMAIN ret
    /\ ret["name"] = PayloadOwnId["name"]
    /\ Len(index_of(projects, project_p, characters)) = 1
    /\ index_of(projects, project_p, characters)[1].id = ann
    /\ index_of(projects, project_p, characters)[1].name = PayloadNamed["name"]
    /\ unindexed(projects, project_p, characters, ann)
    /\ ann \notin DOMAIN legacy[characters] \/ legacy[characters][ann] # projects[project_p].files[characters][ann]

\* C14: save_element, get_element, list_project_elements and update_project called for a
\* project that does not exist raise nothing and return an error with the list of the
\* projects that exist, and no element file, metadata file or legacy file is created or
\* changed; get_element for an id that has no file in an existing project returns an error
\* with the elements the type has, and changes nothing either.
C14_NotFoundIsReturnedAndChangesNothing ==
    [][/\ (/\ call'.op \in {"save_element", "get_element", "list_project_elements", "update_project"}
           /\ call'.project_id \notin DOMAIN projects)
          => /\ DOMAIN ret' = {"error", "available_projects"}
             /\ {x.id : x \in ret'["available_projects"]} = DOMAIN projects
             /\ projects' = projects
             /\ legacy' = legacy
       /\ (/\ call'.op = "get_element"
           /\ call'.project_id \in DOMAIN projects
           /\ call'.element_id \notin DOMAIN get(projects[call'.project_id].files, call'.element_type, EmptyDict))
          => /\ DOMAIN ret' = {"error", "available_elements"}
             /\ "listing" \in DOMAIN ret'["available_elements"]
             /\ {x.id : x \in ret'["available_elements"]["listing"]}
                    = DOMAIN get(projects[call'.project_id].files, call'.element_type, EmptyDict)
             /\ projects' = projects
             /\ legacy' = legacy]_vars

\* save_element for a project that does not exist, while another project holds an element
C14_Witness ==
    /\ call.op = "save_element"
    /\ call.project_id \notin DOMAIN projects
    /\ "error" \in DOMAIN ret
    /\ \E x \in ret["available_projects"] : x.id = project_p
    /\ project_p \in DOMAIN projects
    /\ ann \in DOMAIN projects[project_p].files[characters]

\* spellings of pattern ids in several letter cases
IdSpellings == {my_arc, <<"M","y","_","A","r","c">>, <<"M","Y","_","A","R","C">>, transformation, Transformation, <<"T","R","A","N","S","F","O","R","M","A","T","I","O","N">>}

\* C15: when create_custom_pattern(name, description, stages) has succeeded,
\* get_pattern_details with the id derived from the name, in any letter case, returns a
\* pattern whose stages are the stages supplied, in their order and with their duplicates:
\* so for the call that follows the creation, for the lookup in the state the creation
\* left, and for the lookup of a PatternManager constructed on the library directory then.
C15_PatternRoundTrip ==
    /\ [](call.op = "create_custom_pattern" /\ "pattern" \in DOMAIN ret =>
             \A n \in IdSpellings :
                 lower(n) = replace(replace(lower(call.name), " ", "_"), "-", "_") =>
                     /\ \E r \in {pattern_details(library, patterns, n)} :
                           "pattern" \in DOMAIN r /\ r["pattern"]["stages"] = call.stages
                     /\ \E r \in {pattern_details([id \in DOMAIN library \cup DOMAIN default_patterns |->
                                                      IF id \in DOMAIN library THEN library[id] ELSE default_files[id]],
                                                  default_patterns, n)} :
                           "pattern" \in DOMAIN r /\ r["pattern"]["stages"] = call.stages)
    /\ [][(/\ call.op = "create_custom_pattern"
           /\ "pattern" \in DOMAIN ret
           /\ call'.op = "get_pattern_details"
           /\ lower(call'.pattern_names[1]) = replace(replace(lower(call.name), " ", "_"), "-", "_"))
          => "pattern" \in DOMAIN ret' /\ ret'["pattern"]["stages"] = call.stages]_vars

\* the pattern created as Transformation with a stage named twice, fetched under that
\* spelling: the file transformation.json answers, not the default of the table
C15_Witness ==
    /\ call.op = "get_pattern_details"
    /\ call.pattern_names = <<Transformation>>
    /\ "pattern" \in DOMAIN ret
    /\ "created_at" \in DOMAIN ret["pattern"]
    /\ Len(ret["pattern"]["stages"]) = 3
    /\ ret["pattern"]["stages"][2] = ret["pattern"]["stages"][3]
    /\ ret["pattern"]["stages"] # patterns[transformation]["stages"] \/ "created_at" \in DOMAIN patterns[transformation]

\* C16: constructing a PatternManager or running initialize_default_patterns, any number
\* of times, writes the file of a default pattern only when the library has no file of that
\* id and changes no file that exists, so a pattern stored under heroes_journey,
\* transformation or voyage_and_return stays as stored; and get_pattern_details for an id
\* that has a file returns the content of the file, not the default of the table.
C16_BootstrapWritesOnlyAbsentFiles ==
    /\ [][call'.op \in {"PatternManager", "initialize_default_patterns"} =>
             /\ DOMAIN library' = DOMAIN library \cup {heroes_journey, transformation, voyage_and_return}
             /\ \A id \in DOMAIN library : library'[id] = library[id]
             /\ \A id \in DOMAIN library' \ DOMAIN library : json_load(library'[id]) = default_patterns[id]]_vars
    /\ []((/\ call.op = "get_pattern_details"
           /\ lower(call.pattern_names[1]) \in DOMAIN library)
          => ret = [pattern |-> json_load(library[lower(call.pattern_names[1])])])

\* a PatternManager constructed after a pattern was created under the id transformation:
\* its table has the default, and the lookup returned the pattern created
C16_Witness ==
    /\ call.op = "get_pattern_details"
    /\ lower(call.pattern_names[1]) = transformation
    /\ "pattern" \in DOMAIN ret
    /\ "created_at" \in DOMAIN ret["pattern"]
    /\ patterns[transformation] = default_patterns[transformation]
    /\ ret["pattern"]["stages"] # default_patterns[transformation]["stages"]

\* C17: create_hybrid_pattern with the weights 0.7 and 0.3 on two patterns that resolve,
\* and no custom_stages, produces a pattern whose stage list has exactly
\* min(12, len(a.stages) + len(b.stages)) stages.
C17_HybridLengthSevenThree ==
    (/\ call.op = "create_hybrid_pattern"
     /\ call.weights = <<7, 3>>
     /\ call.custom_stages = <<>>
     /\ \A i \in 1..2 : lower(call.pattern_names[i]) \in DOMAIN library \cup DOMAIN patterns)
    => /\ "pattern" \in DOMAIN ret
       /\ \E a \in {pattern_details(library, patterns, call.pattern_names[1])["pattern"]["stages"]},
             b \in {pattern_details(library, patterns, call.pattern_names[2])["pattern"]["stages"]} :
             Len(ret["pattern"]["stages"]) = IF Len(a) + Len(b) < 12 THEN Len(a) + Len(b) ELSE 12

\* C18: every pattern in the library and every pattern in the table of the PatternManager
\* has at least one stage, whatever create_custom_pattern and create_hybrid_pattern calls
\* were made.
C18_StagesNeverEmpty ==
    /\ \A id \in DOMAIN library : Len(json_load(library[id])["stages"]) >= 1
    /\ \A id \in DOMAIN patterns : Len(patterns[id]["stages"]) >= 1

\* C19: once analyze_narrative has matched against a pattern, no create_custom_pattern or
\* create_hybrid_pattern call changes what get_pattern_details returns for that pattern,
\* and a creation never overwrites a pattern file the library holds: a name that maps to
\* an id in use is stored under another id.
C19_MatchedPatternNeverChanges ==
    [][call'.op \in {"create_custom_pattern", "create_hybrid_pattern"} =>
          /\ analysis.valid =>
                pattern_details(library', patterns', analysis.result["pattern"])
                    = pattern_details(library, patterns, analysis.result["pattern"])
          /\ \A id \in DOMAIN library : library'[id] = library[id]]_vars

\* C20: an analyze_narrative call that returns its result stores it, when a project id is
\* given, as the element analysis-{slug of the first scene's title}-{pattern} of type
\* analyses of that project: the element file holds the result, the index of the type has
\* one entry of that id, and no other element file of any project changes; when no project
\* id is given it writes the flat file analyses/analysis-{slug}-{pattern}.json with the
\* result, no other flat file, and no project's element files or metadata change. The
\* pattern library is left alone in both cases.
C20_AnalysisStoredInProjectOrFlat ==
    [][(call'.op = "analyze_narrative" /\ "error" \notin DOMAIN ret' /\ "raised" \notin DOMAIN ret') =>
          LET scenes == analysis'.scenes
              title == IF scenes = <<>> THEN <<"u","n","n","a","m","e","d">>
                       ELSE IF "title" \in DOMAIN scenes[1] THEN scenes[1]["title"]
                       ELSE IF "scene_title" \in DOMAIN scenes[1] THEN scenes[1]["scene_title"]
                       ELSE <<"u","n","n","a","m","e","d">>
              id == <<"a","n","a","l","y","s","i","s","-">> \o replace(lower(title), " ", "_") \o <<"-">> \o call'.pattern_names[1]
              p == call'.project_id
          IN /\ library' = library
             /\ ret'["pattern"] = call'.pattern_names[1]
             /\ IF p # <<>>
                THEN /\ DOMAIN projects' = DOMAIN projects
                     /\ \A q \in DOMAIN projects \ {p} : projects'[q] = projects[q]
                     /\ \A t \in DOMAIN projects[p].files \ {analyses} : projects'[p].files[t] = projects[p].files[t]
                     /\ DOMAIN projects'[p].files[analyses] = DOMAIN projects[p].files[analyses] \cup {id}
                     /\ \A e \in DOMAIN projects[p].files[analyses] \ {id} :
                            projects'[p].files[analyses][e] = projects[p].files[analyses][e]
                     /\ \A k \in DOMAIN ret' \ {"id", "output_path"} :
                            json_load(projects'[p].files[analyses][id])[k] = ret'[k]
                     /\ DOMAIN json_load(projects'[p].files[analyses][id]) = DOMAIN ret' \ {"id", "output_path"}
                     /\ LET refs == json_load(projects'[p].metadata)["elements"][analyses]
                        IN Cardinality({i \in DOMAIN refs : refs[i].id = id}) = 1
                     /\ ret'["id"] = id
                ELSE /\ projects' = projects
                     /\ DOMAIN legacy' = DOMAIN legacy
                     /\ \A t \in DOMAIN legacy \ {analyses} : legacy'[t] = legacy[t]
                     /\ DOMAIN legacy'[analyses] = DOMAIN legacy[analyses] \cup {id}
                     /\ \A e \in DOMAIN legacy[analyses] \ {id} : legacy'[analyses][e] = legacy[analyses][e]
                     /\ \A k \in DOMAIN ret' \ {"output_path"} : json_load(legacy'[analyses][id])[k] = ret'[k]
                     /\ DOMAIN json_load(legacy'[analyses][id]) = DOMAIN ret' \ {"output_path"}
                     /\ ret'["output_path"] = <<"a","n","a","l","y","s","e","s","/">> \o id \o <<".","j","s","o","n">>]_vars

\* the analysis of a titled scene stored in a project, the project's only element
C20_Witness ==
    /\ call.op = "analyze_narrative"
    /\ call.project_id = project_p
    /\ "matched_stages" \in DOMAIN ret
    /\ analysis.scenes # <<>>
    /\ DOMAIN projects[project_p].files[analyses] = {ret["id"]}
    /\ Len(json_load(projects[project_p].metadata)["elements"][analyses]) = 1

\* C21: after a successful save_element of a type among characters, scenes, outlines,
\* analyses and symbols, the flat file {type}/{id}.json has the content of the element file
\* just written in the project; a successful save_element of any other type creates and
\* changes no flat file.
C21_LegacyMirror ==
    [][(call'.op = "save_element" /\ "error" \notin DOMAIN ret') =>
          IF call'.element_type \in {<<"c","h","a","r","a","c","t","e","r","s">>, <<"s","c","e","n","e","s">>, <<"o","u","t","l","i","n","e","s">>, <<"a","n","a","l","y","s","e","s">>, <<"s","y","m","b","o","l","s">>}
          THEN /\ ret'["id"] \in DOMAIN legacy'[call'.element_type]
               /\ legacy'[call'.element_type][ret'["id"]]
                      = projects'[call'.project_id].files[call'.element_type][ret'["id"]]
          ELSE legacy' = legacy]_vars

\* a character saved under a given id: the flat file of that id has the payload as stored
C21_Witness ==
    /\ call.op = "save_element"
    /\ "error" \notin DOMAIN ret
    /\ call.element_type = characters
    /\ call.element_data = PayloadOwnId
    /\ ret["id"] = ann
    /\ legacy[characters][ann] = projects[project_p].files[characters][ann]
    /\ json_load(legacy[characters][ann])["name"] = PayloadOwnId["name"]
    /\ DOMAIN legacy[characters] = {ann}

\* C22: update_project on an existing project gives every key of the stored metadata that
\* the patch names the patch's value, adds no key, leaves every other key as stored, and
\* sets modified_at to the time of the call, later than the one stored, also when the patch
\* is empty, names only unknown keys, or names modified_at itself.
C22_UpdateAppliesKnownKeysOnly ==
    [][(call'.op = "update_project" /\ "error" \notin DOMAIN ret') =>
          LET old == json_load(projects[call'.project_id].metadata)
              new == json_load(projects'[call'.project_id].metadata)
              u == call'.updates
          IN /\ DOMAIN new = DOMAIN old
             /\ \A k \in DOMAIN old \ {"modified_at"} : new[k] = IF k \in DOMAIN u THEN u[k] ELSE old[k]
             /\ new["modified_at"] = now
             /\ new["modified_at"] > old["modified_at"]
             /\ now' > now
             /\ projects'[call'.project_id].files = projects[call'.project_id].files]_vars

\* a patch of a known key, an unknown key and modified_at, on a project with an element
C22_Witness ==
    /\ call.op = "update_project"
    /\ "error" \notin DOMAIN ret
    /\ DOMAIN call.updates = {"modified_at", "status", "bogus"}
    /\ ret["status"] = "done"
    /\ ret["modified_at"] = 3
    /\ "bogus" \notin DOMAIN json_load(projects[project_p].metadata)
    /\ DOMAIN json_load(projects[project_p].metadata)["elements"] # {}

\* C23: the list of ids a pattern lookup returns with its not-found error holds every id
\* get_pattern_details resolves in that state: the ids of the table and the ids that have
\* a file in the library, whether or not the table knows them.
C23_NotFoundListsEveryResolvableId ==
    (call.op \in {"get_pattern_details", "create_custom_pattern", "create_hybrid_pattern", "analyze_narrative"}
        /\ "available_patterns" \in DOMAIN ret)
    => \A id \in DOMAIN library \cup DOMAIN patterns : id \in ret["available_patterns"]

\* C24: create_hybrid_pattern without custom_stages, on a non-empty map of patterns that
\* resolve with positive weights, raises nothing and returns a hybrid; each source
\* contributes max(1, round(weight * target)) stages, or all it has if it has fewer, so the
\* hybrid has as many stages as the sources contribute together, cut at the target; this
\* includes a source of two or more stages that contributes one.
C24_HybridReturnsForEveryWeight ==
    (/\ call.op = "create_hybrid_pattern"
     /\ call.custom_stages = <<>>
     /\ call.pattern_names # <<>>
     /\ \A i \in DOMAIN call.pattern_names :
           /\ lower(call.pattern_names[i]) \in (DOMAIN library \cup DOMAIN patterns) \ {replace(replace(lower(call.name), " ", "_"), "-", "_")}
           /\ call.weights[i] > 0)
    => /\ "raised" \notin DOMAIN ret
       /\ "pattern" \in DOMAIN ret
       /\ LET lens == [i \in DOMAIN call.pattern_names |->
                          Len(pattern_details(library, patterns, call.pattern_names[i])["pattern"]["stages"])]
              total == Len(concat([i \in DOMAIN lens |-> [j \in 1..lens[i] |-> 0]]))
              target == IF total < 12 THEN total ELSE 12
              given == [i \in DOMAIN lens |->
                          [j \in 1..(IF num_stages(call.weights[i], target) < lens[i]
                                     THEN num_stages(call.weights[i], target) ELSE lens[i]) |-> 0]]
          IN Len(ret["pattern"]["stages"]) = (IF Len(concat(given)) < target THEN Len(concat(given)) ELSE target)

\* the score the fallback gives a scene for a stage: 2 for each stage word longer than 3
\* characters found in the scene text, 1 for each stage word whose first 4 characters begin
\* a scene word at least as long, 1 for each theme whose key is in the stage name and one
\* of whose related words is in the scene text
fallback_score(stage_lower, view) ==
    LET words == split(stage_lower)
    IN 2 * Cardinality({w \in DOMAIN words : Len(words[w]) > 3 /\ contains(view.scene_text, words[w])})
       + Cardinality({w \in DOMAIN words :
            \E c \in DOMAIN view.content_words :
               /\ startswith(view.content_words[c], SubSeq(words[w], 1, IF Len(words[w]) < 4 THEN Len(words[w]) ELSE 4))
               /\ Len(view.content_words[c]) >= Len(words[w])})
       + Cardinality({t \in DOMAIN theme_mappings :
            /\ contains(stage_lower, theme_mappings[t].theme)
            /\ \E r \in DOMAIN theme_mappings[t].related : contains(view.scene_text, theme_mappings[t].related[r])})

\* C25: a stage no scene matches exactly is scored against every scene (2 per stage word
\* longer than 3 characters present in the scene text, 1 per stage word whose first 4
\* characters begin a scene word of equal or greater length, 1 per theme entry whose key is
\* in the stage name and one of whose synonyms is in the scene text); it is recorded as a
\* semantic match with the best score and the first scene that has it if and only if that
\* score is at least 1, and is missing otherwise.
C25_SemanticFallbackScore ==
    analysis.valid =>
        \E stages \in {analysis.stages}, matched \in {analysis.result.matched_stages},
           missing \in {{analysis.result.missing_stages[k] : k \in DOMAIN analysis.result.missing_stages}},
           views \in {scene_views(analysis.scenes)} :
           \A i \in DOMAIN stages :
              (~ \E s \in DOMAIN views :
                    \/ contains(views[s].scene_text, lower(stages[i]))
                    \/ views[s].pattern_stage_lower = lower(stages[i]))
              => \E scores \in {[s \in DOMAIN views |-> fallback_score(lower(stages[i]), views[s])]} :
                    IF \E s \in DOMAIN views : scores[s] >= 1
                    THEN \E b \in DOMAIN views :
                            /\ \A s \in DOMAIN views : scores[s] <= scores[b]
                            /\ \A s \in 1..(b - 1) : scores[s] < scores[b]
                            /\ stages[i] \notin missing
                            /\ \E k \in DOMAIN matched :
                                  /\ matched[k].stage = stages[i]
                                  /\ matched[k].match_quality = "semantic"
                                  /\ matched[k].score = scores[b]
                                  /\ matched[k].scene = views[b].title_fixed
                    ELSE /\ stages[i] \in missing
                         /\ \A k \in DOMAIN matched : matched[k].stage # stages[i]

\* the sources of a create_hybrid_pattern call as the call found them: name, weight and
\* stages, in the order of the patterns argument
sources_of(c, lib, table) ==
    [i \in DOMAIN c.pattern_names |->
        [name |-> c.pattern_names[i], weight |-> c.weights[i],
         pattern |-> pattern_details(lib, table, c.pattern_names[i])["pattern"]]]

\* C26: without custom_stages the stages of a hybrid are the first target elements of the
\* selections of its sources concatenated in sorted order, target being min(12, sum of the
\* sources' stage counts): the list is never longer than the target nor than 12, and what is
\* cut is cut from the end of the concatenation.
C26_HybridTruncatesAtTheEnd ==
    [][(call'.op = "create_hybrid_pattern" /\ "pattern" \in DOMAIN ret' /\ call'.custom_stages = <<>>) =>
          \E sorted \in {sort_by_weight(sources_of(call', library, patterns))} :
          \E target \in {Min(12, Len(concat([i \in DOMAIN sorted |-> sorted[i].pattern["stages"]])))} :
          \E all \in {concat([i \in DOMAIN sorted |->
                          take_stages(sorted[i].pattern["stages"], num_stages(sorted[i].weight, target))])} :
             /\ Len(ret'["pattern"]["stages"]) <= target
             /\ Len(ret'["pattern"]["stages"]) <= 12
             /\ Len(ret'["pattern"]["stages"]) = Min(target, Len(all))
             /\ ret'["pattern"]["stages"] = SubSeq(all, 1, Len(ret'["pattern"]["stages"]))
             /\ json_load(library'[<<"m","i","x">>])["stages"] = ret'["pattern"]["stages"]]_vars

\* weights 0.9 and 0.9: eleven and seven stages are selected and the last six are cut
C26_Witness ==
    /\ call.op = "create_hybrid_pattern"
    /\ call.weights = <<9, 9>>
    /\ "pattern" \in DOMAIN ret
    /\ Len(ret["pattern"]["stages"]) = 12
    /\ ret["pattern"]["stages"][12] = default_patterns[transformation]["stages"][1]

\* the positions taken from a source of len stages asked for n of them
positions_taken(len, n) ==
    IF n >= len THEN [j \in 1..len |-> j]
    ELSE [j \in 1..n |-> (((j - 1) * (len - 1)) \div (n - 1)) + 1]

\* C27: hybrid composition keeps the order of each source's stages. A source asked for n
\* stages with 2 <= n < len gives those at the positions floor(i * (len - 1) / (n - 1)),
\* i = 0..n-1, which increase strictly from its first stage to its last; a source asked for
\* len or more gives all its stages; the hybrid is made of these contributions, each a
\* subsequence of its source in the original order with no position taken twice.
C27_HybridKeepsStageOrder ==
    [][(call'.op = "create_hybrid_pattern" /\ "pattern" \in DOMAIN ret' /\ call'.custom_stages = <<>>) =>
          \E sorted \in {sort_by_weight(sources_of(call', library, patterns))} :
          \E target \in {Min(12, Len(concat([i \in DOMAIN sorted |-> sorted[i].pattern["stages"]])))} :
          \E taken \in {[i \in DOMAIN sorted |->
                            positions_taken(Len(sorted[i].pattern["stages"]),
                                            Max(1, round_tenths(sorted[i].weight * target)))]} :
             /\ \A i \in DOMAIN sorted :
                   /\ \A j \in DOMAIN taken[i] : taken[i][j] \in DOMAIN sorted[i].pattern["stages"]
                   /\ \A j \in DOMAIN taken[i] : \A k \in DOMAIN taken[i] : j < k => taken[i][j] < taken[i][k]
                   /\ (Len(taken[i]) >= 2 /\ Len(taken[i]) < Len(sorted[i].pattern["stages"])) =>
                         /\ taken[i][1] = 1
                         /\ taken[i][Len(taken[i])] = Len(sorted[i].pattern["stages"])
             /\ \E all \in {concat([i \in DOMAIN sorted |->
                               [j \in DOMAIN taken[i] |-> sorted[i].pattern["stages"][taken[i][j]]]])} :
                   /\ Len(ret'["pattern"]["stages"]) <= Len(all)
                   /\ ret'["pattern"]["stages"] = SubSeq(all, 1, Len(ret'["pattern"]["stages"]))]_vars

\* eight of the twelve stages of the Hero's Journey, from the first to the last, then four
\* of the seven of Transformation
C27_Witness ==
    /\ call.op = "create_hybrid_pattern"
    /\ call.weights = <<3, 7>>
    /\ "pattern" \in DOMAIN ret
    /\ Len(ret["pattern"]["stages"]) = 12
    /\ ret["pattern"]["stages"][1] = HeroesJourneyStages[1]
    /\ ret["pattern"]["stages"][3] = HeroesJourneyStages[4]
    /\ ret["pattern"]["stages"][8] = HeroesJourneyStages[12]
    /\ ret["pattern"]["stages"][9] = default_patterns[transformation]["stages"][1]
    /\ ret["pattern"]["stages"][12] = default_patterns[transformation]["stages"][7]

\* C28: whenever a list of custom_stages is passed to create_hybrid_pattern and a hybrid
\* is stored, its stages are that list, element for element and in the same order, however
\* long the list is and whatever the weights and the stages of the sources are, and its
\* psychological_functions and examples are those merged from the resolved sources.
C28_CustomStagesStoredVerbatim ==
    [][(call'.op = "create_hybrid_pattern" /\ call'.custom_stages # <<>> /\ "pattern" \in DOMAIN ret') =>
          \E sorted \in {sort_by_weight(sources_of(call', library, patterns))} :
             /\ ret'["pattern"]["stages"] = call'.custom_stages[1]
             /\ json_load(library'[<<"m","i","x">>])["stages"] = call'.custom_stages[1]
             /\ ret'["pattern"]["psychological_functions"] =
                   dedupe(concat([i \in DOMAIN sorted |-> sorted[i].pattern["psychological_functions"]]))
             /\ ret'["pattern"]["examples"] =
                   dedupe(concat([i \in DOMAIN sorted |->
                       SubSeq(sorted[i].pattern["examples"], 1, Min(2, Len(sorted[i].pattern["examples"])))]))]_vars

\* the order in which sources are processed: a permutation of their positions in the
\* patterns argument, heavier before lighter and, of equal weights, earlier before later
processing_order(srcs) ==
    CHOOSE p \in [DOMAIN srcs -> DOMAIN srcs] :
        /\ \A i \in DOMAIN srcs : \A j \in DOMAIN srcs : i # j => p[i] # p[j]
        /\ \A i \in DOMAIN srcs : \A j \in DOMAIN srcs : i < j =>
              \/ srcs[p[i]].weight > srcs[p[j]].weight
              \/ srcs[p[i]].weight = srcs[p[j]].weight /\ p[i] < p[j]

\* C29: create_hybrid_pattern processes the resolved sources by weight descending, sources
\* of equal weight in the order of the patterns argument, and this order is the order of
\* the stages (when they are generated), of the psychological_functions and of the examples
\* of the hybrid.
C29_HybridProcessesByWeight ==
    [][(call'.op = "create_hybrid_pattern" /\ "pattern" \in DOMAIN ret') =>
          \E srcs \in {sources_of(call', library, patterns)} :
          \E p \in {processing_order(srcs)} :
          \E target \in {Min(12, Len(concat([i \in DOMAIN srcs |-> srcs[i].pattern["stages"]])))} :
             /\ (call'.custom_stages = <<>>) =>
                   \E all \in {concat([i \in DOMAIN srcs |->
                                   [j \in DOMAIN positions_taken(Len(srcs[p[i]].pattern["stages"]),
                                                                 Max(1, round_tenths(srcs[p[i]].weight * target)))
                                      |-> srcs[p[i]].pattern["stages"][
                                             positions_taken(Len(srcs[p[i]].pattern["stages"]),
                                                             Max(1, round_tenths(srcs[p[i]].weight * target)))[j]]]])} :
                      ret'["pattern"]["stages"] = SubSeq(all, 1, Min(target, Len(all)))
             /\ ret'["pattern"]["psychological_functions"] =
                   dedupe(concat([i \in DOMAIN srcs |-> srcs[p[i]].pattern["psychological_functions"]]))
             /\ ret'["pattern"]["examples"] =
                   dedupe(concat([i \in DOMAIN srcs |->
                       SubSeq(srcs[p[i]].pattern["examples"], 1, Min(2, Len(srcs[p[i]].pattern["examples"])))]))]_vars

\* Transformation 0.3 is named before the Hero's Journey 0.7 and comes after it in the
\* stages, in the psychological_functions and in the examples
C29_Witness ==
    /\ call.op = "create_hybrid_pattern"
    /\ call.pattern_names = <<transformation, heroes_journey>>
    /\ call.weights = <<3, 7>>
    /\ "pattern" \in DOMAIN ret
    /\ ret["pattern"]["stages"][1] = HeroesJourneyStages[1]
    /\ ret["pattern"]["psychological_functions"][1] = default_patterns[heroes_journey]["psychological_functions"][1]
    /\ ret["pattern"]["examples"] =
          SubSeq(default_patterns[heroes_journey]["examples"], 1, 2)
             \o SubSeq(default_patterns[transformation]["examples"], 1, 2)

\* C30: a project is created once and its index is never lost. After every
\* create_project, save_element and update_project call, every element file that
\* save_element wrote into a project has its reference in the index of that project, and
\* the call has neither removed a project nor changed the created_at of one that existed:
\* a create_project call with the name of an existing project leaves its metadata as stored.
C30_CreatedOnceIndexNeverLost ==
    [][/\ \A p \in DOMAIN projects' : \A t \in DOMAIN projects'[p].files :
             \A id \in DOMAIN projects'[p].files[t] :
                \E i \in DOMAIN index_of(projects', p, t) : index_of(projects', p, t)[i].id = id
       /\ \A p \in DOMAIN projects :
             /\ p \in DOMAIN projects'
             /\ json_load(projects'[p].metadata)["created_at"] = json_load(projects[p].metadata)["created_at"]
             /\ (call'.op = "create_project" /\ _sanitize_name(call'.name) = p) =>
                   projects'[p].metadata = projects[p].metadata]_vars

====
